---- MODULE Spec2Model ----
(***************************************************************************)
(* MoshBrosh: the datamosh effect of src/MoshBrosh.                        *)
(*                                                                         *)
(* Spec     the Premiere plugin's sequence cache (MoshBrosh.cpp): Render   *)
(*          calls from several host threads, serialized by cacheMutex,     *)
(*          and the host's SequenceFlatten / SequenceSetdown /             *)
(*          SequenceSetup calls, which take no lock.                       *)
(* SpecCLI  the offline tool (CLI/moshbrosh_cli.cpp): parameter            *)
(*          adjustment, motion estimation (pass 2), the accumulation fold  *)
(*          (pass 3) and the blend of the written frames (pass 4).         *)
(* SpecRender    the plugin with Render requests only.                     *)
(* SpecFold      either program on its own, for the accumulation fold.     *)
(* SpecEstimate  single calls of ComputeBlockMotion and ComputeBlockFlow.  *)
(*                                                                         *)
(* Pixels are four channel values.  A channel value k stands for the float *)
(* k; the frames drawn are achromatic with integer levels, so that every   *)
(* luminance, gradient and determinant below is an exact integer in the    *)
(* stated scale.                                                           *)
(***************************************************************************)
EXTENDS Integers, Sequences, FiniteSets, TLC

VARIABLES
    alive,              \* the MoshSequenceData object exists (SequenceSetup .. SequenceSetdown)
    analysisState,      \* MoshSequenceData::analysisState
    analyzedMoshFrame,  \* MoshSequenceData::analyzedMoshFrame
    analyzedDuration,   \* MoshSequenceData::analyzedDuration
    analyzedBlockSize,  \* MoshSequenceData::analyzedBlockSize
    analyzedSearchRange,\* MoshSequenceData::analyzedSearchRange
    accumulatedFrames,  \* MoshSequenceData::accumulatedFrames: key -> AccumulatedFrame
    referenceFrame,     \* MoshSequenceData::referenceFrame
    cacheMutex,         \* MoshSequenceData::cacheMutex: its holder, or NoThread
    pc,                 \* per render thread: its position in Render
    req,                \* per render thread: the arguments of its Render call
    local,              \* per render thread: Render's and PrecomputeWarpedFrames' locals
    out,                \* per render thread: the output layer written by Render
    hostPc,             \* the host thread's position in SequenceFlatten
    crashed,            \* the process died on an invalid read
    precomputeRuns,     \* history: PrecomputeWarpedFrames calls since the last parameter change
    cli,                \* the CLI's main(): its position and locals
    call,               \* a direct call of one function: its arguments and result
    cep                 \* the CEP panel's script: its globals, sockets, timers and messages

vars == <<alive, analysisState, analyzedMoshFrame, analyzedDuration, analyzedBlockSize,
          analyzedSearchRange, accumulatedFrames, referenceFrame, cacheMutex, pc, req,
          local, out, hostPc, crashed, precomputeRuns, cli, call, cep>>

pluginVars == <<alive, analysisState, analyzedMoshFrame, analyzedDuration,
                analyzedBlockSize, analyzedSearchRange, accumulatedFrames,
                referenceFrame, cacheMutex, pc, req, local, out, hostPc, crashed,
                precomputeRuns>>

-----------------------------------------------------------------------------
(* Bounds of the model *)

\* frame width and height in pixels
FrameWidth == 10
FrameHeight == 2
\* frame indices run 0..MaxFrame
MaxFrame == 3

-----------------------------------------------------------------------------
(* Arithmetic helpers *)

Min(a, b) == IF a < b THEN a ELSE b
Max(a, b) == IF a > b THEN a ELSE b
Abs(a) == IF a < 0 THEN -a ELSE a

\* template Clamp: std::max(minVal, std::min(value, maxVal))
Clamp(value, minVal, maxVal) == Max(minVal, Min(value, maxVal))

\* a quotient cut off towards zero
RoundDiv_Truncate(num, den) ==
    LET q == Abs(num) \div Abs(den)
    IN IF (num < 0) # (den < 0) THEN -q ELSE q

\* round(num / den) of <cmath>: to nearest, halves away from zero
RoundDiv(num, den) ==
    LET n == IF den < 0 THEN -num ELSE num
        d == Abs(den)
        q == (2 * Abs(n) + d) \div (2 * d)
    IN IF n < 0 THEN -q ELSE q

RECURSIVE Sum(_, _)
Sum(f, S) ==
    IF S = {} THEN 0
    ELSE LET x == CHOOSE x \in S : TRUE IN f[x] + Sum(f, S \ {x})

-----------------------------------------------------------------------------
(* Frames *)

\* std::vector<float> after clear(), or of a default-constructed AccumulatedFrame
EmptyPixels == << >>

\* the decoded video: the pixel of frame f at (x, y); an achromatic level 0..3, alpha 1
VideoLevel(f, x, y) == (f + 3 * x + 2 * y + ((x * x * (f + 1)) \div 3)) % 4
VideoPixels(f, width, height) ==
    [i \in 0 .. (width * height - 1) |->
        LET v == VideoLevel(f, i % width, i \div width) IN <<v, v, v, 1>>]

\* what a read through a dangling or null pixel pointer may yield
GarbagePixels(width, height) ==
    { [i \in 0 .. (width * height - 1) |-> <<v, v, v, v>>] : v \in {0, 3} }

-----------------------------------------------------------------------------
(* Optical flow of the plugin: Lucas-Kanade per block *)

\* the luminance weights, in thousandths
LumaDen == 1000

\* GetGray: luminance of the BGRA pixel at the clamped position
GetGray(data, width, height, x, y) ==
    LET cx == Clamp(x, 0, width - 1)
        cy == Clamp(y, 0, height - 1)
        px == data[cy * width + cx]
    IN (299 * px[3] + 587 * px[2] + 114 * px[1]) \div LumaDen

\* |det| < 1e-6, for det16 = 16 * det
DetDegenerate(det16) == Abs(det16) < 16 /\ Abs(det16) * 1000000 < 16

\* a temporal difference that forgets to subtract the previous frame
TemporalDifference_CurrentOnly(currGray, prevGray) == 2 * currGray

\* lines 92-93: It, doubled
TemporalDifference(currGray, prevGray) == 2 * (currGray - prevGray)

\* the loops of lines 84-85: g summed over the pixels of the block, row by row
BlockSum(g, xs, ys) == Sum([y \in ys |-> Sum([x \in xs |-> g[<<x, y>>]], xs)], ys)

\* lines 74-102: det of the structure tensor of the block, times 16
BlockDet(prev, width, height, blockX, blockY, blockSize) ==
    LET y2 == IF blockY + blockSize < height THEN blockY + blockSize ELSE height
        x2 == IF blockX + blockSize < width THEN blockX + blockSize ELSE width
        xs == blockX .. (x2 - 1)
        ys == blockY .. (y2 - 1)
        P == xs \X ys
        Ix == [p \in P |-> GetGray(prev, width, height, p[1] + 1, p[2])
                           - GetGray(prev, width, height, p[1] - 1, p[2])]
        Iy == [p \in P |-> GetGray(prev, width, height, p[1], p[2] + 1)
                           - GetGray(prev, width, height, p[1], p[2] - 1)]
    IN BlockSum([p \in P |-> Ix[p] * Ix[p]], xs, ys) * BlockSum([p \in P |-> Iy[p] * Iy[p]], xs, ys)
       - BlockSum([p \in P |-> Ix[p] * Iy[p]], xs, ys) * BlockSum([p \in P |-> Ix[p] * Iy[p]], xs, ys)

\* ComputeBlockFlow: <<mvX, mvY>> of the block at (blockX, blockY).
\* Ix and Iy are kept doubled (the 0.5f factor), It doubled to match.
ComputeBlockFlow(prev, curr, width, height, blockX, blockY, blockSize) ==
    LET y2 == IF blockY + blockSize < height THEN blockY + blockSize ELSE height
        x2 == IF blockX + blockSize < width THEN blockX + blockSize ELSE width
        xs == blockX .. (x2 - 1)
        ys == blockY .. (y2 - 1)
        P == xs \X ys
        Ix == [p \in P |-> GetGray(prev, width, height, p[1] + 1, p[2])
                           - GetGray(prev, width, height, p[1] - 1, p[2])]
        Iy == [p \in P |-> GetGray(prev, width, height, p[1], p[2] + 1)
                           - GetGray(prev, width, height, p[1], p[2] - 1)]
        It == [p \in P |-> TemporalDifference(GetGray(curr, width, height, p[1], p[2]),
                                              GetGray(prev, width, height, p[1], p[2]))]
        sumIxIx == BlockSum([p \in P |-> Ix[p] * Ix[p]], xs, ys)
        sumIyIy == BlockSum([p \in P |-> Iy[p] * Iy[p]], xs, ys)
        sumIxIy == BlockSum([p \in P |-> Ix[p] * Iy[p]], xs, ys)
        sumIxIt == BlockSum([p \in P |-> Ix[p] * It[p]], xs, ys)
        sumIyIt == BlockSum([p \in P |-> Iy[p] * It[p]], xs, ys)
        det == sumIxIx * sumIyIy - sumIxIy * sumIxIy
    IN IF DetDegenerate(det) THEN <<0, 0>>
       ELSE <<Clamp(RoundDiv(-sumIxIt * sumIyIy + sumIyIt * sumIxIy, det), -32, 32),
              Clamp(RoundDiv(-sumIyIt * sumIxIx + sumIxIt * sumIxIy, det), -32, 32)>>

\* the function f with each of its values computed once, as the loops compute
\* the vector of a block once (lines 137-143) for all the pixels of the block
Tabulated(f) == f @@ << >>

\* a source position clamped pixel by pixel instead of block by block
WarpSourceIndex_PixelClamp(x, y, x1, y1, blockW, blockH, imvX, imvY, width, height) ==
    Clamp(y + imvY, 0, height - 1) * width + Clamp(x + imvX, 0, width - 1)

\* lines 145-157: the index in accumulated of the pixel copied to (x, y), a
\* pixel of the block at (x1, y1) of size blockW x blockH with vector
\* (imvX, imvY)
WarpSourceIndex(x, y, x1, y1, blockW, blockH, imvX, imvY, width, height) ==
    LET sy1 == Clamp(y1 + imvY, 0, height - blockH)
        sx1 == Clamp(x1 + imvX, 0, width - blockW)
    IN (sy1 + (y - y1)) * width + (sx1 + (x - x1))

\* WarpAccumulated: the accumulated image after one step (returned, where the
\* code moves temp into accumulated.pixelData)
WarpAccumulated(accumulated, prev, curr, width, height, blockSize) ==
    LET origins == { <<bx, by>> \in (0 .. (width - 1)) \X (0 .. (height - 1)) :
                        bx % blockSize = 0 /\ by % blockSize = 0 }
        flow == Tabulated([b \in origins |->
                    ComputeBlockFlow(prev, curr, width, height, b[1], b[2], blockSize)])
    IN [i \in 0 .. (width * height - 1) |->
          LET x == i % width
              y == i \div width
              x1 == (x \div blockSize) * blockSize
              y1 == (y \div blockSize) * blockSize
              y2 == IF y1 + blockSize < height THEN y1 + blockSize ELSE height
              x2 == IF x1 + blockSize < width THEN x1 + blockSize ELSE width
              blockH == y2 - y1
              blockW == x2 - x1
              imvX == flow[<<x1, y1>>][1]
              imvY == flow[<<x1, y1>>][2]
          IN accumulated[WarpSourceIndex(x, y, x1, y1, blockW, blockH, imvX, imvY,
                                         width, height)]]

-----------------------------------------------------------------------------
(* The sequence data of the plugin *)

Threads == {"r1", "r2"}
NoThread == "none"

\* enum class AnalysisState
NotStarted == "NotStarted"
InProgress == "InProgress"
Complete == "Complete"
Invalid == "Invalid"

\* BlockSizeFromIndex: the popup index of the Block Size parameter to a size
BlockSizeFromIndex(index) ==
    CASE index = 1 -> 8
      [] index = 3 -> 32
      [] OTHER -> 16

\* The parameter sets a Render call may carry: the host's current values of
\* Mosh Frame, Duration, Block Size (popup index), Search Range and Blend
\* (percent).  BaseParams and every change of one single field of it.
BaseParams ==
    [moshFrame |-> 1, duration |-> 2, blockSizeIndex |-> 1, searchRange |-> 16,
     blend |-> 50]
ParamSets ==
    { BaseParams,
      [BaseParams EXCEPT !.moshFrame = 2],
      [BaseParams EXCEPT !.duration = 1],
      [BaseParams EXCEPT !.blockSizeIndex = 2],
      [BaseParams EXCEPT !.searchRange = 32],
      [BaseParams EXCEPT !.blend = 100],
      [BaseParams EXCEPT !.blend = 0] }

\* warped results numbered like the frames, one key further
WarpedKey_NextFrameNumber(frameNum) == frameNum + 1

\* WarpedKey: the map key of the warped result of frame frameNum
WARPED_KEY_BASE == -10000
WarpedKey(frameNum) == WARPED_KEY_BASE - frameNum

\* History fields of a cache entry, not fields of AccumulatedFrame: config,
\* the (moshFrame, duration, blockSize) recorded when the entry was stored, and
\* inputs, the <<config, valid>> of the entries a warped result was computed
\* from.
RecordedConfig == <<analyzedMoshFrame, analyzedDuration, analyzedBlockSize>>

\* AccumulatedFrame(): the default-constructed frame
DefaultFrame ==
    [frameIndex |-> 0, width |-> 0, height |-> 0, pixelData |-> EmptyPixels,
     valid |-> FALSE, config |-> RecordedConfig, inputs |-> {}]

\* AccumulatedFrame::Clear, done while config is recorded
ClearedFrame(config) == [DefaultFrame EXCEPT !.config = config]

\* CopyFrameToAccumulated followed by the frameIndex assignment: the frame
\* holding the source layer's pixels
CopyFrameToAccumulated(src, frameIndex) ==
    [frameIndex |-> frameIndex, width |-> src.width, height |-> src.height,
     pixelData |-> src.pixels, valid |-> TRUE, config |-> RecordedConfig,
     inputs |-> {}]

\* the source layer the host hands to Render for frame currentFrame
SourceLayer(currentFrame) ==
    [width |-> FrameWidth, height |-> FrameHeight,
     pixels |-> VideoPixels(currentFrame, FrameWidth, FrameHeight)]

\* lines 351-353: the source layer of the request of thread t, at its size
RequestLayer(t) ==
    [width |-> req[t].width, height |-> req[t].height,
     pixels |-> VideoPixels(req[t].currentFrame, req[t].width, req[t].height)]

\* accumulatedFrames.find(key) != accumulatedFrames.end()
Found(key) == key \in DOMAIN accumulatedFrames

\* unordered_map::operator[] on map m: the map with a default entry inserted
\* when the key is missing
WithKey(m, key) ==
    IF key \in DOMAIN m THEN m
    ELSE [k \in DOMAIN m \cup {key} |-> IF k = key THEN DefaultFrame ELSE m[k]]

\* the map m with key bound to frame
Store(m, key, frame) ==
    [k \in DOMAIN m \cup {key} |-> IF k = key THEN frame ELSE m[k]]

\* std::unordered_map after clear()
EmptyMap == << >>

-----------------------------------------------------------------------------
(* Output layers.  An output channel is kept in hundredths of a channel     *)
(* value, the unit of the Blend percentage.                                *)

OutScale == 100

\* the memcpy of the source rows (out of the mosh range)
PassthroughPixels(src) ==
    [i \in DOMAIN src |-> [c \in 1 .. 4 |-> OutScale * src[i][c]]]

\* a blend that never takes the warped image
BlendPixels_SourceOnly(src, warped, percent) ==
    [i \in DOMAIN src |-> [c \in 1 .. 4 |-> OutScale * src[i][c]]]

\* a blend with the two weights exchanged
BlendPixels_WeightsExchanged(src, warped, percent) ==
    [i \in DOMAIN src |->
        [c \in 1 .. 4 |-> src[i][c] * percent + warped[i][c] * (OutScale - percent)]]

\* src * (1 - blend) + warped * blend, per channel; blend = percent / 100
BlendPixels(src, warped, percent) ==
    [i \in DOMAIN src |->
        [c \in 1 .. 4 |-> src[i][c] * (OutScale - percent) + warped[i][c] * percent]]

\* the cyan tint: B and G plus 0.2, R halved, A unchanged (BGRA order)
TintPixels(src) ==
    [i \in DOMAIN src |->
        <<OutScale * src[i][1] + 20, OutScale * src[i][2] + 20,
          50 * src[i][3], OutScale * src[i][4]>>]

\* warpedConfig is a history field: the config of the warped result blended
NoOutput == [kind |-> "none", pixels |-> EmptyPixels, warpedConfig |-> <<>>]
NoRequest ==
    [currentFrame |-> -1, params |-> BaseParams, width |-> FrameWidth,
     height |-> FrameHeight]
NoLocal == [f |-> 0, accumulated |-> EmptyPixels, inputs |-> {}]

\* Render's locals moshFrame, duration, blockSize of thread t
MoshFrameOf(t) == req[t].params.moshFrame
DurationOf(t) == req[t].params.duration
BlockSizeOf(t) == BlockSizeFromIndex(req[t].params.blockSizeIndex)
InMoshRange(t) ==
    /\ req[t].currentFrame >= MoshFrameOf(t)
    /\ req[t].currentFrame < MoshFrameOf(t) + DurationOf(t)

-----------------------------------------------------------------------------
(* Initial state: SequenceSetup has run, MoshSequenceData() constructed *)

NewSequenceData ==
    /\ alive' = TRUE
    /\ analysisState' = NotStarted
    /\ analyzedMoshFrame' = 0
    /\ analyzedDuration' = 0
    /\ analyzedBlockSize' = 16
    /\ analyzedSearchRange' = 16
    /\ accumulatedFrames' = EmptyMap
    /\ referenceFrame' = ClearedFrame(<<0, 0, 16>>)

\* the CLI is not running
CliIdle == [pc |-> "off"]

\* no direct call
NoCall == [fn |-> "none"]

\* main.js lines 9-12 before the page has loaded: ws, heartbeatTimer and
\* reconnectTimer are null (0), no socket, timer or message exists
PanelNotLoaded ==
    [loaded |-> FALSE, ws |-> 0, sockets |-> << >>, heartbeatTimer |-> 0,
     reconnectTimer |-> 0, intervals |-> {}, timeouts |-> {}, heartbeats |-> {},
     received |-> << >>, sent |-> << >>]

PluginInit ==
    /\ alive = TRUE
    /\ analysisState = NotStarted
    /\ analyzedMoshFrame = 0
    /\ analyzedDuration = 0
    /\ analyzedBlockSize = 16
    /\ analyzedSearchRange = 16
    /\ accumulatedFrames = EmptyMap
    /\ referenceFrame = [frameIndex |-> 0, width |-> 0, height |-> 0,
                         pixelData |-> EmptyPixels, valid |-> FALSE,
                         config |-> <<0, 0, 16>>, inputs |-> {}]
    /\ cacheMutex = NoThread
    /\ pc = [t \in Threads |-> "idle"]
    /\ req = [t \in Threads |-> NoRequest]
    /\ local = [t \in Threads |-> NoLocal]
    /\ out = [t \in Threads |-> NoOutput]
    /\ hostPc = "idle"
    /\ crashed = FALSE
    /\ precomputeRuns = 0

Init ==
    /\ PluginInit
    /\ cli = CliIdle
    /\ call = NoCall
    /\ cep = PanelNotLoaded

-----------------------------------------------------------------------------
(* Render, lines 350-522, one action per block of statements.  The lock    *)
(* guard of line 377 is held from RenderEnter to RenderReturn.             *)

\* line 380: the recorded parameters differ from the call's
ParamsChanged(moshFrame, duration, blockSize) ==
    \/ analyzedMoshFrame # moshFrame
    \/ analyzedDuration # duration
    \/ analyzedBlockSize # blockSize

\* line 383: accumulatedFrames.clear() on a parameter change
FramesOnParamsChanged == EmptyMap

\* an input check that looks at the reference frame only
HasAllInputs_ReferenceOnly(moshFrame, duration) == referenceFrame.valid

\* lines 455-464: the reference and every input frame of the window are cached
HasAllInputs(moshFrame, duration) ==
    /\ referenceFrame.valid
    /\ \A f \in (moshFrame - 1) .. (moshFrame + duration - 1) : Found(f)

\* a Render that pre-computes whenever the inputs are there
ShouldPrecompute_IgnoresState(hasAllInputs, state) == hasAllInputs

\* line 466: whether Render calls PrecomputeWarpedFrames
ShouldPrecompute(hasAllInputs, state) == hasAllInputs /\ state # Complete

\* std::lock_guard on cacheMutex can be taken
MutexFree == cacheMutex = NoThread

\* lines 350-377: the call's arguments are read and cacheMutex is taken
RenderEnter(t) ==
    /\ alive /\ ~crashed
    /\ pc[t] = "idle"
    /\ MutexFree
    /\ \E currentFrame \in 0 .. MaxFrame, params \in ParamSets :
          req' = [req EXCEPT ![t] = [currentFrame |-> currentFrame, params |-> params,
                                     width |-> FrameWidth, height |-> FrameHeight]]
    /\ cacheMutex' = t
    /\ pc' = [pc EXCEPT ![t] = "params"]
    /\ UNCHANGED <<alive, analysisState, analyzedMoshFrame, analyzedDuration,
                   analyzedBlockSize, analyzedSearchRange, accumulatedFrames,
                   referenceFrame, local, out, hostPc, crashed, precomputeRuns, cli, call, cep>>

\* the other sizes the host renders the layer at: <<width, height>> of a
\* reduced playback resolution and of a larger sequence
ResizedSizes ==
    { <<Max(1, FrameWidth \div 2), Max(1, FrameHeight \div 2)>>,
      <<2 * FrameWidth, 2 * FrameHeight>> }

\* lines 350-377 for a request at another size; the model draws such
\* requests for frames outside the mosh range only
RenderEnterResized(t) ==
    /\ alive /\ ~crashed
    /\ pc[t] = "idle"
    /\ MutexFree
    /\ \E currentFrame \in 0 .. MaxFrame, params \in ParamSets, size \in ResizedSizes :
          /\ \/ currentFrame < params.moshFrame
             \/ currentFrame >= params.moshFrame + params.duration
          /\ req' = [req EXCEPT ![t] = [currentFrame |-> currentFrame, params |-> params,
                                        width |-> size[1], height |-> size[2]]]
    /\ cacheMutex' = t
    /\ pc' = [pc EXCEPT ![t] = "params"]
    /\ UNCHANGED <<alive, analysisState, analyzedMoshFrame, analyzedDuration,
                   analyzedBlockSize, analyzedSearchRange, accumulatedFrames,
                   referenceFrame, local, out, hostPc, crashed, precomputeRuns, cli, call, cep>>

\* lines 366-374: no sequence data, Render returns without touching anything
RenderNoSequence(t) ==
    /\ ~alive /\ ~crashed
    /\ pc[t] = "idle"
    /\ UNCHANGED vars

\* lines 379-389: clear the cache when the parameters changed
RenderCheckParams(t) ==
    /\ ~crashed
    /\ pc[t] = "params"
    /\ IF ParamsChanged(MoshFrameOf(t), DurationOf(t), BlockSizeOf(t))
       THEN /\ accumulatedFrames' = FramesOnParamsChanged
            /\ referenceFrame' =
                  ClearedFrame(<<MoshFrameOf(t), DurationOf(t), BlockSizeOf(t)>>)
            /\ analyzedMoshFrame' = MoshFrameOf(t)
            /\ analyzedDuration' = DurationOf(t)
            /\ analyzedBlockSize' = BlockSizeOf(t)
            /\ analysisState' = NotStarted
            /\ precomputeRuns' = 0
       ELSE UNCHANGED <<accumulatedFrames, referenceFrame, analyzedMoshFrame,
                        analyzedDuration, analyzedBlockSize, analysisState,
                        precomputeRuns>>
    /\ pc' = [pc EXCEPT ![t] = "cache"]
    /\ UNCHANGED <<alive, analyzedSearchRange, cacheMutex, req, local, out, hostPc,
                   crashed, cli, call, cep>>

\* lines 391-397: cache the input frame under its frame number, if absent
RenderCacheInput(t) ==
    /\ ~crashed
    /\ pc[t] = "cache"
    /\ accumulatedFrames' =
          IF Found(req[t].currentFrame) THEN accumulatedFrames
          ELSE Store(accumulatedFrames, req[t].currentFrame,
                     CopyFrameToAccumulated(RequestLayer(t), req[t].currentFrame))
    /\ pc' = [pc EXCEPT ![t] = "reference"]
    /\ UNCHANGED <<alive, analysisState, analyzedMoshFrame, analyzedDuration,
                   analyzedBlockSize, analyzedSearchRange, referenceFrame, cacheMutex,
                   req, local, out, hostPc, crashed, precomputeRuns, cli, call, cep>>

\* a capture by the first frame before the window that is rendered
ShouldStoreReference_AnyEarlierFrame(currentFrame, moshFrame, valid) ==
    currentFrame <= moshFrame - 1 /\ ~valid

\* line 400: whether this Render captures the reference frame
ShouldStoreReference(currentFrame, moshFrame, valid) ==
    currentFrame = moshFrame - 1 /\ ~valid

\* lines 399-404: store the reference frame (the frame before the mosh range)
RenderStoreReference(t) ==
    /\ ~crashed
    /\ pc[t] = "reference"
    /\ referenceFrame' =
          IF ShouldStoreReference(req[t].currentFrame, MoshFrameOf(t),
                                  referenceFrame.valid)
          THEN CopyFrameToAccumulated(RequestLayer(t), req[t].currentFrame)
          ELSE referenceFrame
    /\ pc' = [pc EXCEPT ![t] = "route"]
    /\ UNCHANGED <<alive, analysisState, analyzedMoshFrame, analyzedDuration,
                   analyzedBlockSize, analyzedSearchRange, accumulatedFrames,
                   cacheMutex, req, local, out, hostPc, crashed, precomputeRuns, cli, call, cep>>

\* lines 406-420: not in the mosh range, copy the source
RenderPassthrough(t) ==
    /\ ~crashed
    /\ pc[t] = "route"
    /\ ~InMoshRange(t)
    /\ out' = [out EXCEPT ![t] =
                  [kind |-> "passthrough", warpedConfig |-> <<>>,
                   pixels |-> PassthroughPixels(RequestLayer(t).pixels)]]
    /\ pc' = [pc EXCEPT ![t] = "ret"]
    /\ UNCHANGED <<alive, analysisState, analyzedMoshFrame, analyzedDuration,
                   analyzedBlockSize, analyzedSearchRange, accumulatedFrames,
                   referenceFrame, cacheMutex, req, local, hostPc, crashed,
                   precomputeRuns, cli, call, cep>>

\* lines 422-452: the warped result of the frame is cached, blend with it
RenderUsePrecomputed(t) ==
    /\ ~crashed
    /\ pc[t] = "route"
    /\ InMoshRange(t)
    /\ Found(WarpedKey(req[t].currentFrame))
    /\ out' = [out EXCEPT ![t] =
                  [kind |-> "moshed",
                   warpedConfig |->
                       accumulatedFrames[WarpedKey(req[t].currentFrame)].config,
                   pixels |-> BlendPixels(SourceLayer(req[t].currentFrame).pixels,
                                 accumulatedFrames[WarpedKey(req[t].currentFrame)].pixelData,
                                 req[t].params.blend)]]
    /\ pc' = [pc EXCEPT ![t] = "ret"]
    /\ UNCHANGED <<alive, analysisState, analyzedMoshFrame, analyzedDuration,
                   analyzedBlockSize, analyzedSearchRange, accumulatedFrames,
                   referenceFrame, cacheMutex, req, local, hostPc, crashed,
                   precomputeRuns, cli, call, cep>>

\* lines 454-468: decide between pre-computation and the interim tint
RenderCheckInputs(t) ==
    /\ ~crashed
    /\ pc[t] = "route"
    /\ InMoshRange(t)
    /\ ~Found(WarpedKey(req[t].currentFrame))
    /\ pc' = [pc EXCEPT ![t] =
                 IF ShouldPrecompute(HasAllInputs(MoshFrameOf(t), DurationOf(t)),
                                     analysisState)
                 THEN "precompute" ELSE "tint"]
    /\ UNCHANGED <<alive, analysisState, analyzedMoshFrame, analyzedDuration,
                   analyzedBlockSize, analyzedSearchRange, accumulatedFrames,
                   referenceFrame, cacheMutex, req, local, out, hostPc, crashed,
                   precomputeRuns, cli, call, cep>>

-----------------------------------------------------------------------------
(* PrecomputeWarpedFrames, lines 302-348, called from line 468 *)

\* the pixel vector holds the width * height pixels the loops read
Readable(pixelData, width, height) ==
    \A i \in 0 .. (width * height - 1) : i \in DOMAIN pixelData

\* lines 309-317: the accumulated image starts as a copy of the reference
PrecomputeBegin(t) ==
    /\ ~crashed
    /\ pc[t] = "precompute"
    /\ local' = [local EXCEPT ![t] =
                    [f |-> MoshFrameOf(t), accumulated |-> referenceFrame.pixelData,
                     inputs |-> {<<referenceFrame.config, referenceFrame.valid>>}]]
    /\ precomputeRuns' = precomputeRuns + 1
    /\ pc' = [pc EXCEPT ![t] = "fold"]
    /\ UNCHANGED <<alive, analysisState, analyzedMoshFrame, analyzedDuration,
                   analyzedBlockSize, analyzedSearchRange, accumulatedFrames,
                   referenceFrame, cacheMutex, req, out, hostPc, crashed, cli, call, cep>>

\* the map after lines 324-325: operator[] inserts a default frame for a
\* missing key
FoldInputs(f) == WithKey(WithKey(accumulatedFrames, f - 1), f)

\* every vector WarpAccumulated reads at step f has its pixels
FoldReadable(t) ==
    LET f == local[t].f
        m == FoldInputs(f)
    IN /\ Readable(local[t].accumulated, FrameWidth, FrameHeight)
       /\ Readable(m[f - 1].pixelData, FrameWidth, FrameHeight)
       /\ Readable(m[f].pixelData, FrameWidth, FrameHeight)

\* lines 320-343: one iteration of the loop, for frame f.  A read of a
\* vector without its pixels is undefined: it yields arbitrary pixels here,
\* and ends the process in PrecomputeCrash.
PrecomputeStep(t) ==
    /\ ~crashed
    /\ pc[t] = "fold"
    /\ local[t].f < MoshFrameOf(t) + DurationOf(t)
    /\ LET f == local[t].f
           m == FoldInputs(f)
           results ==
               IF FoldReadable(t)
               THEN { WarpAccumulated(local[t].accumulated, m[f - 1].pixelData,
                                      m[f].pixelData, FrameWidth, FrameHeight,
                                      BlockSizeOf(t)) }
               ELSE GarbagePixels(FrameWidth, FrameHeight)
           inputs == local[t].inputs \cup {<<m[f - 1].config, m[f - 1].valid>>,
                                            <<m[f].config, m[f].valid>>}
       IN \E warped \in results :
             /\ accumulatedFrames' =
                   Store(m, WarpedKey(f),
                         [frameIndex |-> f, width |-> FrameWidth,
                          height |-> FrameHeight, pixelData |-> warped,
                          valid |-> TRUE,
                          config |-> <<MoshFrameOf(t), DurationOf(t), BlockSizeOf(t)>>,
                          inputs |-> inputs])
             /\ local' = [local EXCEPT ![t] =
                             [f |-> f + 1, accumulated |-> warped, inputs |-> inputs]]
    /\ UNCHANGED <<alive, analysisState, analyzedMoshFrame, analyzedDuration,
                   analyzedBlockSize, analyzedSearchRange, referenceFrame, cacheMutex,
                   pc, req, out, hostPc, crashed, precomputeRuns, cli, call, cep>>

\* lines 328-332 reading a vector without its pixels: the process dies
PrecomputeCrash(t) ==
    /\ ~crashed
    /\ pc[t] = "fold"
    /\ local[t].f < MoshFrameOf(t) + DurationOf(t)
    /\ ~FoldReadable(t)
    /\ crashed' = TRUE
    /\ UNCHANGED <<alive, analysisState, analyzedMoshFrame, analyzedDuration,
                   analyzedBlockSize, analyzedSearchRange, accumulatedFrames,
                   referenceFrame, cacheMutex, pc, req, local, out, hostPc,
                   precomputeRuns, cli, call, cep>>

\* lines 345-347: the loop is over, mark pre-computation complete
PrecomputeEnd(t) ==
    /\ ~crashed
    /\ pc[t] = "fold"
    /\ local[t].f >= MoshFrameOf(t) + DurationOf(t)
    /\ analysisState' = Complete
    /\ pc' = [pc EXCEPT ![t] = "after"]
    /\ UNCHANGED <<alive, analyzedMoshFrame, analyzedDuration, analyzedBlockSize,
                   analyzedSearchRange, accumulatedFrames, referenceFrame, cacheMutex,
                   req, local, out, hostPc, crashed, precomputeRuns, cli, call, cep>>

-----------------------------------------------------------------------------
(* Render, continued *)

\* lines 470-498: blend with the result just computed, if it is there
RenderAfterPrecompute(t) ==
    /\ ~crashed
    /\ pc[t] = "after"
    /\ IF Found(WarpedKey(req[t].currentFrame))
       THEN /\ out' = [out EXCEPT ![t] =
                  [kind |-> "moshed",
                   warpedConfig |->
                       accumulatedFrames[WarpedKey(req[t].currentFrame)].config,
                   pixels |-> BlendPixels(SourceLayer(req[t].currentFrame).pixels,
                                 accumulatedFrames[WarpedKey(req[t].currentFrame)].pixelData,
                                 req[t].params.blend)]]
            /\ pc' = [pc EXCEPT ![t] = "ret"]
       ELSE /\ out' = out
            /\ pc' = [pc EXCEPT ![t] = "tint"]
    /\ UNCHANGED <<alive, analysisState, analyzedMoshFrame, analyzedDuration,
                   analyzedBlockSize, analyzedSearchRange, accumulatedFrames,
                   referenceFrame, cacheMutex, req, local, hostPc, crashed,
                   precomputeRuns, cli, call, cep>>

\* lines 500-521: still collecting, output the cyan tint of the source
RenderTint(t) ==
    /\ ~crashed
    /\ pc[t] = "tint"
    /\ out' = [out EXCEPT ![t] =
                  [kind |-> "tint", warpedConfig |-> <<>>,
                   pixels |-> TintPixels(SourceLayer(req[t].currentFrame).pixels)]]
    /\ pc' = [pc EXCEPT ![t] = "ret"]
    /\ UNCHANGED <<alive, analysisState, analyzedMoshFrame, analyzedDuration,
                   analyzedBlockSize, analyzedSearchRange, accumulatedFrames,
                   referenceFrame, cacheMutex, req, local, hostPc, crashed,
                   precomputeRuns, cli, call, cep>>

\* return PF_Err_NONE: the lock guard releases cacheMutex, the host takes
\* the output layer
\* a return that leaves the mutex locked
Unlock_Never(holder, t) == holder

\* ~lock_guard at a return of Render: the mutex is released by its holder
Unlock(holder, t) == IF holder = t THEN NoThread ELSE holder

RenderReturn(t) ==
    /\ ~crashed
    /\ pc[t] = "ret"
    /\ cacheMutex' = Unlock(cacheMutex, t)
    /\ pc' = [pc EXCEPT ![t] = "idle"]
    /\ req' = [req EXCEPT ![t] = NoRequest]
    /\ local' = [local EXCEPT ![t] = NoLocal]
    /\ out' = [out EXCEPT ![t] = NoOutput]
    /\ UNCHANGED <<alive, analysisState, analyzedMoshFrame, analyzedDuration,
                   analyzedBlockSize, analyzedSearchRange, accumulatedFrames,
                   referenceFrame, hostPc, crashed, precomputeRuns, cli, call, cep>>

-----------------------------------------------------------------------------
(* The sequence commands of the host.  None of them takes cacheMutex.      *)

\* SequenceFlatten, line 253: accumulatedFrames.clear()
SequenceFlattenFrames ==
    /\ alive /\ ~crashed
    /\ hostPc = "idle"
    /\ accumulatedFrames' = EmptyMap
    /\ hostPc' = "flatten"
    /\ UNCHANGED <<alive, analysisState, analyzedMoshFrame, analyzedDuration,
                   analyzedBlockSize, analyzedSearchRange, referenceFrame, cacheMutex,
                   pc, req, local, out, crashed, precomputeRuns, cli, call, cep>>

\* SequenceFlatten, line 254: referenceFrame.Clear(), and the return
SequenceFlattenReference ==
    /\ ~crashed
    /\ hostPc = "flatten"
    /\ referenceFrame' = ClearedFrame(RecordedConfig)
    /\ hostPc' = "idle"
    /\ UNCHANGED <<alive, analysisState, analyzedMoshFrame, analyzedDuration,
                   analyzedBlockSize, analyzedSearchRange, accumulatedFrames,
                   cacheMutex, pc, req, local, out, crashed, precomputeRuns, cli, call, cep>>

\* SequenceSetdown, lines 231-244: Clear() and delete.  The host disposes of
\* a sequence only when no call on it is in flight.
SequenceSetdown ==
    /\ alive /\ ~crashed
    /\ hostPc = "idle"
    /\ \A t \in Threads : pc[t] = "idle"
    /\ analysisState' = NotStarted
    /\ accumulatedFrames' = EmptyMap
    /\ referenceFrame' = ClearedFrame(RecordedConfig)
    /\ alive' = FALSE
    /\ UNCHANGED <<analyzedMoshFrame, analyzedDuration, analyzedBlockSize,
                   analyzedSearchRange, cacheMutex, pc, req, local, out, hostPc,
                   crashed, precomputeRuns, cli, call, cep>>

\* SequenceSetup, lines 215-229: a new MoshSequenceData
SequenceSetup ==
    /\ ~alive /\ ~crashed
    /\ NewSequenceData
    /\ UNCHANGED <<cacheMutex, pc, req, local, out, hostPc, crashed, precomputeRuns,
                   cli, call, cep>>

Next ==
    \/ \E t \in Threads :
          \/ RenderEnter(t)
          \/ RenderNoSequence(t)
          \/ RenderCheckParams(t)
          \/ RenderCacheInput(t)
          \/ RenderStoreReference(t)
          \/ RenderPassthrough(t)
          \/ RenderUsePrecomputed(t)
          \/ RenderCheckInputs(t)
          \/ PrecomputeBegin(t)
          \/ PrecomputeStep(t)
          \/ PrecomputeCrash(t)
          \/ PrecomputeEnd(t)
          \/ RenderAfterPrecompute(t)
          \/ RenderTint(t)
          \/ RenderReturn(t)
    \/ SequenceFlattenFrames
    \/ SequenceFlattenReference
    \/ SequenceSetdown
    \/ SequenceSetup

Spec == Init /\ [][Next]_vars

\* Render requests alone: any arrival order of frames and parameter sets from
\* the render threads, with no sequence command of the host in between
NextRender ==
    \E t \in Threads :
        \/ RenderEnter(t)
        \/ RenderCheckParams(t)
        \/ RenderCacheInput(t)
        \/ RenderStoreReference(t)
        \/ RenderPassthrough(t)
        \/ RenderUsePrecomputed(t)
        \/ RenderCheckInputs(t)
        \/ PrecomputeBegin(t)
        \/ PrecomputeStep(t)
        \/ PrecomputeEnd(t)
        \/ RenderAfterPrecompute(t)
        \/ RenderTint(t)
        \/ RenderReturn(t)

SpecRender == Init /\ [][NextRender]_vars

\* Render requests alone, some of them at another size
NextResize ==
    \/ NextRender
    \/ \E t \in Threads :
          \/ RenderEnterResized(t)
          \/ PrecomputeCrash(t)

SpecResize == Init /\ [][NextResize]_vars

-----------------------------------------------------------------------------
(* The CLI: CLI/moshbrosh_cli.cpp *)

\* GetLuminance of an RGBA pixel, in thousandths
GetLuminance(pixel) == 299 * pixel[1] + 587 * pixel[2] + 114 * pixel[3]

\* line 75: bestSAD = 1e30f, above every sum of absolute differences
BestSadInit == 1000000000

\* a scan that steps by one instead of two
GridCount_EveryOffset(searchRange) == IF searchRange < 0 THEN 0 ELSE 2 * searchRange + 1

\* lines 82-83: the values dy and dx take, -searchRange, -searchRange+2, ...
GridCount(searchRange) == IF searchRange < 0 THEN 0 ELSE searchRange + 1

\* a SAD that clamps the shifted coordinate to the frame instead of skipping
BlockSad_Clamped(current, previous, width, height, bx, by, blockSize, dx, dy) ==
    LET rows == { py \in 0 .. (blockSize - 1) : by + py < height }
        cols == { px \in 0 .. (blockSize - 1) : bx + px < width }
        rowSad == [py \in rows |->
                     Sum([px \in cols |->
                            Abs(GetLuminance(current[(by + py) * width + (bx + px)])
                                - GetLuminance(previous[Clamp(by + py + dy, 0, height - 1)
                                                        * width
                                                        + Clamp(bx + px + dx, 0,
                                                                width - 1)]))],
                         cols)]
    IN Sum(rowSad, rows)

\* lines 84-101: the SAD of candidate (dx, dy) of the block at pixel (bx, by);
\* rows and columns whose shifted coordinate leaves the frame are skipped
BlockSad(current, previous, width, height, bx, by, blockSize, dx, dy) ==
    LET rows == { py \in 0 .. (blockSize - 1) :
                    by + py < height /\ by + py + dy >= 0 /\ by + py + dy < height }
        cols == { px \in 0 .. (blockSize - 1) :
                    bx + px < width /\ bx + px + dx >= 0 /\ bx + px + dx < width }
        rowSad == [py \in rows |->
                     Sum([px \in cols |->
                            Abs(GetLuminance(current[(by + py) * width + (bx + px)])
                                - GetLuminance(previous[(by + py + dy) * width
                                                        + (bx + px + dx)]))],
                         cols)]
    IN Sum(rowSad, rows)

\* a comparison that lets a later candidate with an equal SAD win
Improves_OrEqual(sad, bestSAD) == sad <= bestSAD

\* line 103: "if (sad < bestSAD)"
Improves(sad, bestSAD) == sad < bestSAD

\* static_cast<int16_t> of lines 110-111
ToInt16(v) == ((v + 32768) % 65536) - 32768

\* lines 103-107 over the scan: candidate k replaces the running best only on
\* a strictly smaller SAD
RECURSIVE ScanCandidates(_, _, _, _)
ScanCandidates(sads, k, count, best) ==
    IF k >= count THEN best
    ELSE IF Improves(sads[k], best.sad)
         THEN ScanCandidates(sads, k + 1, count, [sad |-> sads[k], k |-> k])
         ELSE ScanCandidates(sads, k + 1, count, best)

\* ComputeBlockMotion: <<outDx, outDy>> of block (blockX, blockY)
ComputeBlockMotion(current, previous, width, height, blockX, blockY, blockSize, searchRange) ==
    LET bx == blockX * blockSize
        by == blockY * blockSize
        n == GridCount(searchRange)
        sads == [k \in 0 .. (n * n - 1) |->
                    BlockSad(current, previous, width, height, bx, by, blockSize,
                             2 * (k % n) - searchRange, 2 * (k \div n) - searchRange)]
        best == ScanCandidates(sads, 0, n * n, [sad |-> BestSadInit, k |-> -1])
    IN IF best.k = -1 THEN <<0, 0>>
       ELSE <<ToInt16(2 * (best.k % n) - searchRange),
              ToInt16(2 * (best.k \div n) - searchRange)>>

\* a grid of the whole blocks only
GridBlocks_WholeOnly(size, blockSize) == size \div blockSize

\* lines 417-418: the number of blocks along an axis of length size, the
\* partial block at the edge included
GridBlocks(size, blockSize) == (size + blockSize - 1) \div blockSize

\* lines 417-419, 431-447: the FrameMotionVectors of one frame
MotionVectors(curr, prev, width, height, blockSize, searchRange) ==
    LET blocksX == GridBlocks(width, blockSize)
        blocksY == GridBlocks(height, blockSize)
        mv == [blockIdx \in 0 .. (blocksX * blocksY - 1) |->
                  ComputeBlockMotion(curr, prev, width, height, blockIdx % blocksX,
                                     blockIdx \div blocksX, blockSize, searchRange)]
    IN [blocksX |-> blocksX, blocksY |-> blocksY,
        dx |-> [blockIdx \in DOMAIN mv |-> mv[blockIdx][1]],
        dy |-> [blockIdx \in DOMAIN mv |-> mv[blockIdx][2]]]

\* a source position that falls back to the destination pixel when either
\* coordinate leaves the frame
WarpFrameSourceIndex_JointClamp(dstX, dstY, dx, dy, width, height) ==
    IF dstX + dx \in 0 .. (width - 1) /\ dstY + dy \in 0 .. (height - 1)
    THEN (dstY + dy) * width + (dstX + dx)
    ELSE dstY * width + dstX

\* lines 137-145: the index in source of the pixel copied to (dstX, dstY) of
\* a block with vector (dx, dy)
WarpFrameSourceIndex(dstX, dstY, dx, dy, width, height) ==
    LET srcY == Clamp(dstY + dy, 0, height - 1)
        srcX == Clamp(dstX + dx, 0, width - 1)
    IN srcY * width + srcX

\* WarpFrameWithMotion: every destination pixel of a block copies the source
\* pixel at its own position plus the block's vector, each coordinate clamped
WarpFrameWithMotion(source, mvs, width, height, blockSize) ==
    [idx \in 0 .. (width * height - 1) |->
        LET dstX == idx % width
            dstY == idx \div width
            bx == dstX \div blockSize
            by == dstY \div blockSize
        IN IF bx < mvs.blocksX /\ by < mvs.blocksY
           THEN LET blockIdx == by * mvs.blocksX + bx
                IN source[WarpFrameSourceIndex(dstX, dstY, mvs.dx[blockIdx],
                                               mvs.dy[blockIdx], width, height)]
           ELSE <<0, 0, 0, 0>>]

\* pass 1: frames[i].pixels of the decoded input
CliFrame(i) == VideoPixels(i, FrameWidth, FrameHeight)

\* the command lines the model runs: -f, -d, -b, -s, -m (percent), and the
\* number of frames of the input file
CliMoshFrames == {0, 1, 2, MaxFrame + 2}
CliDurations == {1, 2, 3}
CliBlockSizes == {4, 8}
CliSearchRanges == {-1, 0, 1, 2}
CliBlends == {-50, 0, 50, 100, 150}
CliTotalFrames == {MaxFrame + 1}

\* main() after pass 1; prevIdx and refFrameIdx keep the indices passes 2 and
\* 3 read from, reads every index of frames that was read after validation
CliStart ==
    { [pc |-> "validate", moshFrame |-> m, duration |-> d, blockSize |-> b,
       searchRange |-> r, blend |-> bl, totalFrames |-> n, i |-> 0,
       motionVectors |-> << >>, prevIdx |-> << >>, refFrameIdx |-> -1,
       accumulated |-> EmptyPixels, warpedFrames |-> << >>, written |-> << >>,
       reads |-> {}] :
      m \in CliMoshFrames, d \in CliDurations, b \in CliBlockSizes,
      r \in CliSearchRanges, bl \in CliBlends, n \in CliTotalFrames }

\* frames[idx].pixels as a read sees it: the decoded frame, or whatever lies
\* at an index outside the vector
CliFrameRead(idx, totalFrames) ==
    IF idx \in 0 .. (totalFrames - 1) THEN {CliFrame(idx)}
    ELSE GarbagePixels(FrameWidth, FrameHeight)

InitCLI ==
    /\ PluginInit
    /\ cli \in CliStart
    /\ call = NoCall
    /\ cep = PanelNotLoaded

\* lines 402-412: "Validate mosh parameters"
CliValidate ==
    /\ cli.pc = "validate"
    /\ LET moshFrame == IF cli.moshFrame >= cli.totalFrames
                        THEN Max(1, cli.totalFrames - cli.duration - 1)
                        ELSE cli.moshFrame
           duration == IF moshFrame + cli.duration > cli.totalFrames
                       THEN cli.totalFrames - moshFrame
                       ELSE cli.duration
       IN cli' = [cli EXCEPT !.pc = "pass2", !.moshFrame = moshFrame,
                             !.duration = duration, !.i = 0]
    /\ UNCHANGED <<pluginVars, call, cep>>

\* lines 425-451: one iteration of pass 2
CliPass2Step ==
    /\ cli.pc = "pass2"
    /\ cli.i < cli.duration
    /\ LET frameIdx == cli.moshFrame + cli.i
           prevIdx == IF frameIdx - 1 < 0 THEN 0 ELSE frameIdx - 1
       IN \E curr \in CliFrameRead(frameIdx, cli.totalFrames) :
            \E prev \in CliFrameRead(prevIdx, cli.totalFrames) :
               cli' = [cli EXCEPT
                 !.motionVectors =
                     Append(@, MotionVectors(curr, prev, FrameWidth, FrameHeight,
                                             cli.blockSize, cli.searchRange)),
                 !.prevIdx = Append(@, prevIdx),
                 !.reads = @ \cup {frameIdx, prevIdx},
                 !.i = @ + 1]
    /\ UNCHANGED <<pluginVars, call, cep>>

\* lines 457-465: the seed of pass 3
CliPass3Begin ==
    /\ cli.pc = "pass2"
    /\ cli.i >= cli.duration
    /\ cli.duration >= 0
    /\ LET refFrameIdx == IF cli.moshFrame - 1 < 0 THEN 0 ELSE cli.moshFrame - 1
       IN \E seed \in CliFrameRead(refFrameIdx, cli.totalFrames) :
             cli' = [cli EXCEPT !.pc = "pass3", !.refFrameIdx = refFrameIdx,
                                !.accumulated = seed,
                                !.reads = @ \cup {refFrameIdx}, !.i = 0]
    /\ UNCHANGED <<pluginVars, call, cep>>

\* a loop that warps the reference frame anew at every iteration
NextAccumulated_KeepSeed(accumulated, warped) == accumulated

\* line 472: "accumulated = warped;  // Accumulate for next frame"
NextAccumulated(accumulated, warped) == warped

\* lines 467-476: one iteration of pass 3
CliPass3Step ==
    /\ cli.pc = "pass3"
    /\ cli.i < cli.duration
    /\ LET warped == WarpFrameWithMotion(cli.accumulated, cli.motionVectors[cli.i + 1],
                                         FrameWidth, FrameHeight, cli.blockSize)
       IN cli' = [cli EXCEPT !.warpedFrames = Append(@, warped),
                             !.accumulated = NextAccumulated(@, warped),
                             !.i = @ + 1]
    /\ UNCHANGED <<pluginVars, call, cep>>

\* line 495: pass 4 starts
CliPass4Begin ==
    /\ cli.pc = "pass3"
    /\ cli.i >= cli.duration
    /\ cli' = [cli EXCEPT !.pc = "pass4", !.i = 0]
    /\ UNCHANGED <<pluginVars, call, cep>>

\* lines 495-543: one frame of pass 4, written in hundredths
CliPass4Step ==
    /\ cli.pc = "pass4"
    /\ cli.i < cli.totalFrames
    /\ LET orig == CliFrame(cli.i)
           inRange == cli.i >= cli.moshFrame /\ cli.i < cli.moshFrame + cli.duration
           moshIdx == cli.i - cli.moshFrame
           outputPixels ==
               IF ~inRange THEN PassthroughPixels(orig)
               ELSE IF cli.blend < 100
                    THEN BlendPixels(orig, cli.warpedFrames[moshIdx + 1], cli.blend)
                    ELSE PassthroughPixels(cli.warpedFrames[moshIdx + 1])
       IN cli' = [cli EXCEPT !.written = Append(@, outputPixels),
                             !.reads = @ \cup {cli.i}, !.i = @ + 1]
    /\ UNCHANGED <<pluginVars, call, cep>>

\* lines 545-575: the encoder is flushed and main returns
CliExit ==
    /\ cli.pc = "pass4"
    /\ cli.i >= cli.totalFrames
    /\ cli' = [cli EXCEPT !.pc = "done"]
    /\ UNCHANGED <<pluginVars, call, cep>>

NextCLI ==
    \/ CliValidate
    \/ CliPass2Step
    \/ CliPass3Begin
    \/ CliPass3Step
    \/ CliPass4Begin
    \/ CliPass4Step
    \/ CliExit

SpecCLI == InitCLI /\ [][NextCLI]_vars

\* any integers for -f and -d, on inputs of one frame and of several
CliAnyMoshFrames == {-2, -1, 0, 1, MaxFrame + 2}
CliAnyDurations == {-1, 0, 1, 2, MaxFrame + 4}
CliAnyTotalFrames == {1, MaxFrame + 1}

CliAnyStart ==
    { [pc |-> "validate", moshFrame |-> m, duration |-> d, blockSize |-> 8,
       searchRange |-> 1, blend |-> bl, totalFrames |-> n, i |-> 0,
       motionVectors |-> << >>, prevIdx |-> << >>, refFrameIdx |-> -1,
       accumulated |-> EmptyPixels, warpedFrames |-> << >>, written |-> << >>,
       reads |-> {}] :
      m \in CliAnyMoshFrames, d \in CliAnyDurations, bl \in {50, 100},
      n \in CliAnyTotalFrames }

InitCLIArgs ==
    /\ PluginInit
    /\ cli \in CliAnyStart
    /\ call = NoCall
    /\ cep = PanelNotLoaded

\* the process ends before pass 3: std::vector's constructor throws for a
\* negative duration (line 423), or the read of frames[frameIdx] outside the
\* vector faults (line 436)
CliAbort ==
    /\ cli.pc = "pass2"
    /\ \/ cli.i = 0 /\ cli.duration < 0
       \/ /\ cli.i < cli.duration
          /\ cli.moshFrame + cli.i \notin 0 .. (cli.totalFrames - 1)
    /\ cli' = [cli EXCEPT
                 !.pc = "aborted",
                 !.reads = IF cli.duration < 0 THEN @ ELSE @ \cup {cli.moshFrame + cli.i}]
    /\ UNCHANGED <<pluginVars, call, cep>>

NextCLIArgs ==
    \/ NextCLI
    \/ CliAbort

SpecCLIArgs == InitCLIArgs /\ [][NextCLIArgs]_vars

\* either program on its own: a run of the CLI, or the plugin serving Render
\* requests with no sequence command of the host in between
InitFold ==
    /\ PluginInit
    /\ cli \in CliStart \cup {CliIdle}
    /\ call = NoCall
    /\ cep = PanelNotLoaded

NextFold ==
    \/ NextCLI
    \/ cli = CliIdle /\ NextRender

SpecFold == InitFold /\ [][NextFold]_vars

\* either program on its own: a run of the CLI, or the plugin under the host
NextEither ==
    \/ NextCLI
    \/ cli = CliIdle /\ Next

SpecEither == InitFold /\ [][NextEither]_vars

-----------------------------------------------------------------------------
(* Render requests that wait for the lock *)

\* the parameter sets of the requests that wait: two windows of different
\* lengths
WaitingParamSets == { BaseParams, [BaseParams EXCEPT !.duration = 1] }

\* lines 350-375: Render is called and reaches the lock_guard of line 377
RenderCall(t) ==
    /\ alive /\ ~crashed
    /\ pc[t] = "idle"
    /\ \E currentFrame \in 0 .. MaxFrame, params \in WaitingParamSets :
          req' = [req EXCEPT ![t] = [currentFrame |-> currentFrame, params |-> params,
                                     width |-> FrameWidth, height |-> FrameHeight]]
    /\ pc' = [pc EXCEPT ![t] = "lock"]
    /\ UNCHANGED <<alive, analysisState, analyzedMoshFrame, analyzedDuration,
                   analyzedBlockSize, analyzedSearchRange, accumulatedFrames,
                   referenceFrame, cacheMutex, local, out, hostPc, crashed,
                   precomputeRuns, cli, call, cep>>

\* line 377: the lock_guard obtains cacheMutex
RenderAcquire(t) ==
    /\ ~crashed
    /\ pc[t] = "lock"
    /\ MutexFree
    /\ cacheMutex' = t
    /\ pc' = [pc EXCEPT ![t] = "params"]
    /\ UNCHANGED <<alive, analysisState, analyzedMoshFrame, analyzedDuration,
                   analyzedBlockSize, analyzedSearchRange, accumulatedFrames,
                   referenceFrame, req, local, out, hostPc, crashed, precomputeRuns,
                   cli, call, cep>>

\* lines 379-468 and 470-522: the steps of thread t while it holds the lock,
\* outside the loop of PrecomputeWarpedFrames
RenderOutsideLoop(t) ==
    \/ RenderCheckParams(t)
    \/ RenderCacheInput(t)
    \/ RenderStoreReference(t)
    \/ RenderPassthrough(t)
    \/ RenderUsePrecomputed(t)
    \/ RenderCheckInputs(t)
    \/ PrecomputeBegin(t)
    \/ PrecomputeEnd(t)
    \/ RenderAfterPrecompute(t)
    \/ RenderTint(t)
    \/ RenderReturn(t)

\* lines 379-522: the steps of thread t while it holds the lock
RenderLocked(t) == RenderOutsideLoop(t) \/ PrecomputeStep(t)

\* line 319: thread t is in the loop and its condition holds, which is when an
\* iteration (PrecomputeStep) can be taken
InLoop(t) ==
    /\ ~crashed
    /\ pc[t] = "fold"
    /\ local[t].f < MoshFrameOf(t) + DurationOf(t)

NextWaiting ==
    \E t \in Threads :
        \/ RenderCall(t)
        \/ RenderAcquire(t)
        \/ RenderLocked(t)

\* a thread inside Render keeps running: weak fairness of its steps, the one
\* of the loop iteration written out with InLoop for ENABLED; and a thread
\* that waits for a mutex which is released again and again obtains it
SpecWaiting ==
    /\ Init
    /\ [][NextWaiting]_vars
    /\ \A t \in Threads : WF_vars(RenderOutsideLoop(t))
    /\ \A t \in Threads : []<>(~InLoop(t)) \/ []<><<PrecomputeStep(t)>>_vars
    /\ \A t \in Threads : SF_vars(RenderAcquire(t))

-----------------------------------------------------------------------------
(* The CEP panel's bridge to the MCP server, cep-panel/main.js.  One action *)
(* per event the browser delivers to the script: the page's load, a         *)
(* socket's open and close events, a message, a click on Reconnect, a       *)
(* timer's callback, the callback of evalScript.                            *)

\* the sockets the script creates and the messages it receives, at most
MaxSockets == 3
MaxMessages == 2

\* lines 103-112: sendResponse, which sends on the socket ws names now, if open
SendResponse(c, requestId, result, error) ==
    IF c.ws # 0 /\ c.sockets[c.ws] = "OPEN"
    THEN [c EXCEPT !.sent = Append(@, [socket |-> c.ws, requestId |-> requestId,
                                       result |-> result, error |-> error])]
    ELSE c

\* setInterval and setTimeout return an identifier no active timer has
FreshTimer(c) ==
    LET active == c.intervals \cup c.timeouts
        free == { n \in 1 .. Cardinality(active) + 1 : n \notin active }
    IN CHOOSE n \in free : \A k \in free : n <= k

\* lines 96-101: stopHeartbeat
StopHeartbeat(c) ==
    IF c.heartbeatTimer # 0
    THEN [c EXCEPT !.intervals = @ \ {c.heartbeatTimer}, !.heartbeatTimer = 0]
    ELSE c

\* lines 87-94: startHeartbeat
StartHeartbeat(c) ==
    LET d == StopHeartbeat(c)
        id == FreshTimer(d)
    IN [d EXCEPT !.heartbeatTimer = id, !.intervals = @ \cup {id}]

\* lines 78-85: scheduleReconnect
ScheduleReconnect(c) ==
    IF c.reconnectTimer # 0
    THEN c
    ELSE LET id == FreshTimer(c)
         IN [c EXCEPT !.reconnectTimer = id, !.timeouts = @ \cup {id}]

\* lines 34-69: connect.  The constructor of line 43 is given a constant,
\* valid URL and does not throw; the new socket is CONNECTING and has its
\* four handlers.
Connect(c) ==
    IF c.ws # 0 /\ c.sockets[c.ws] = "OPEN"
    THEN c
    ELSE [c EXCEPT !.sockets = Append(@, "CONNECTING"), !.ws = Len(c.sockets) + 1]

\* WebSocket.close(): a socket that is connecting or open starts closing, its
\* close event comes later
Close(c, s) ==
    IF c.sockets[s] \in {"CONNECTING", "OPEN"}
    THEN [c EXCEPT !.sockets[s] = "CLOSING"]
    ELSE c

\* lines 71-76: reconnect
Reconnect(c) == Connect(IF c.ws # 0 THEN Close(c, c.ws) ELSE c)

\* the data of a message: text that JSON.parse rejects, or an object with a
\* type and, for a command, the command's name
MessageData ==
    { [parses |-> FALSE] }
        \cup { [parses |-> TRUE, type |-> "status"] }
        \cup { [parses |-> TRUE, type |-> "command", command |-> cmd] :
                 cmd \in {"render_frame", "no_such_command"} }

\* lines 135-161: the commands executeCommand has a case for
KnownCommands ==
    {"open_test_project", "render_frame", "set_effect_param", "get_effect_params",
     "render_frame_range", "get_source_frame", "compare_frames"}

\* the sockets and messages of the page so far
PanelSockets == 1 .. Len(cep.sockets)
PanelMessages == 1 .. Len(cep.received)

\* a step of the page: cep changes, the plugin and the CLI are other programs
PanelStep(c) ==
    /\ cep' = c
    /\ UNCHANGED <<pluginVars, cli, call>>

\* a call of connect creates a socket unless ws is open: sockets are bounded
ConnectBounded(c) ==
    \/ Len(c.sockets) < MaxSockets
    \/ (c.ws # 0 /\ c.sockets[c.ws] = "OPEN")

\* lines 15-19: DOMContentLoaded
PanelLoad ==
    /\ ~cep.loaded
    /\ PanelStep(Connect([cep EXCEPT !.loaded = TRUE]))

\* lines 45-49: socket s opens, its onopen runs
SocketOpen(s) ==
    /\ cep.sockets[s] = "CONNECTING"
    /\ PanelStep(StartHeartbeat([cep EXCEPT !.sockets[s] = "OPEN"]))

\* lines 51-56 (and 58-60): socket s closes, because the connection failed,
\* the server or the network closed it, or close() has completed; its
\* onclose runs
SocketClose(s) ==
    /\ cep.sockets[s] # "CLOSED"
    /\ PanelStep(ScheduleReconnect(StopHeartbeat([cep EXCEPT !.sockets[s] = "CLOSED"])))

\* lines 71-76: the user clicks Reconnect
ReconnectClick ==
    /\ cep.loaded
    /\ Len(cep.sockets) < MaxSockets
    /\ PanelStep(Reconnect(cep))

\* lines 81-84: the callback of the reconnect timer
ReconnectTimerFires ==
    \E id \in cep.timeouts :
        /\ ConnectBounded(cep)
        /\ PanelStep(Connect([cep EXCEPT !.timeouts = @ \ {id}, !.reconnectTimer = 0]))

\* lines 89-93: the callback of a heartbeat timer, which sends if ws is open
HeartbeatFires ==
    \E id \in cep.intervals :
        /\ cep.ws # 0
        /\ cep.sockets[cep.ws] = "OPEN"
        /\ PanelStep([cep EXCEPT !.heartbeats = @ \cup {cep.ws}])

\* lines 62-64 and 114-133: a message arrives on socket s and handleMessage
\* runs up to its await.  The message gets the next requestId.  An unknown
\* command rejects at once (line 159), and the catch of lines 128-131 runs
\* before any other event.
HandleMessage(s, data) ==
    /\ cep.sockets[s] = "OPEN"
    /\ Len(cep.received) < MaxMessages
    /\ LET requestId == Len(cep.received) + 1
           state == IF ~data.parses \/ data.type # "command" THEN "ignored"
                    ELSE IF data.command \in KnownCommands THEN "running"
                    ELSE "threw"
           c == [cep EXCEPT !.received = Append(@, [socket |-> s, data |-> data,
                                                     state |-> state])]
       IN PanelStep(IF state = "threw"
                    THEN SendResponse(c, requestId, "null", "Unknown command")
                    ELSE c)

\* lines 125-131 after the await: the callback of evalScript (lines 164-178)
\* resolves or rejects the promise, and the response is sent
CommandReturns(m, succeeds) ==
    /\ cep.received[m].state = "running"
    /\ LET c == [cep EXCEPT !.received[m].state =
                               IF succeeds THEN "returned" ELSE "threw"]
       IN PanelStep(IF succeeds
                    THEN SendResponse(c, m, "result", "null")
                    ELSE SendResponse(c, m, "null", "ExtendScript error"))

NextPanel ==
    \/ PanelLoad
    \/ \E s \in PanelSockets : SocketOpen(s)
    \/ \E s \in PanelSockets : SocketClose(s)
    \/ ReconnectClick
    \/ ReconnectTimerFires
    \/ HeartbeatFires
    \/ \E s \in PanelSockets, data \in MessageData : HandleMessage(s, data)
    \/ \E m \in PanelMessages, succeeds \in BOOLEAN : CommandReturns(m, succeeds)

SpecPanel == Init /\ [][NextPanel]_vars

-----------------------------------------------------------------------------
(* Direct calls of the two motion estimators *)

\* the images a call is made with: the frames of the video and constant images
CallImages ==
    { VideoPixels(f, FrameWidth, FrameHeight) : f \in 0 .. MaxFrame }
        \cup GarbagePixels(FrameWidth, FrameHeight)

\* -b and -s of the CLI, which accepts any integer
CallBlockSizes == {4, 8}
CallSearchRanges == {0, 1, 2, 4}

\* calls of ComputeBlockMotion as pass 2 makes them (lines 440-447): any block
\* of the grid, current and previous frame
MotionCalls ==
    { m \in { [fn |-> "ComputeBlockMotion", done |-> FALSE, result |-> <<0, 0>>,
               prev |-> p, curr |-> c, width |-> FrameWidth, height |-> FrameHeight,
               blockX |-> bx, blockY |-> by, blockSize |-> b, searchRange |-> r] :
              p \in CallImages, c \in CallImages, b \in CallBlockSizes,
              r \in CallSearchRanges, bx \in 0 .. FrameWidth, by \in 0 .. FrameHeight } :
        /\ m.blockX * m.blockSize < m.width
        /\ m.blockY * m.blockSize < m.height }

\* a 16x16 image, dark but for one bright column
ColumnImage(col) ==
    [i \in 0 .. (16 * 16 - 1) |->
        IF i % 16 = col THEN <<1, 1, 1, 1>> ELSE <<0, 0, 0, 1>>]

\* calls on a 16x16 frame of one block whose bright column has moved four
\* columns to the right from prev to curr
ShiftCalls ==
    { [fn |-> "ComputeBlockMotion", done |-> FALSE, result |-> <<0, 0>>,
       prev |-> ColumnImage(col), curr |-> ColumnImage(col + 4), width |-> 16,
       height |-> 16, blockX |-> 0, blockY |-> 0, blockSize |-> 16,
       searchRange |-> r] :
      col \in {2, 5, 8, 11}, r \in {4, 8} }

\* the block sizes of the plugin's popup that fit the frames
FlowBlockSizes == {BlockSizeFromIndex(1), BlockSizeFromIndex(2)}

\* calls of ComputeBlockFlow as WarpAccumulated makes them (lines 128-137):
\* any block origin of the grid, previous and current input frame
FlowCalls ==
    { m \in { [fn |-> "ComputeBlockFlow", done |-> FALSE, result |-> <<0, 0>>,
               prev |-> p, curr |-> c, width |-> FrameWidth, height |-> FrameHeight,
               blockX |-> bx, blockY |-> by, blockSize |-> b] :
              p \in CallImages, c \in CallImages, b \in FlowBlockSizes,
              bx \in 0 .. (FrameWidth - 1), by \in 0 .. (FrameHeight - 1) } :
        /\ m.blockX % m.blockSize = 0
        /\ m.blockY % m.blockSize = 0 }

\* a 9x9 image: the 8x8 block at the origin has level a, the column right of
\* it level b, the row below it level c
EdgeImage(a, b, c) ==
    [i \in 0 .. (9 * 9 - 1) |->
        LET v == IF i % 9 < 8 /\ i \div 9 < 8 THEN a
                 ELSE IF i \div 9 < 8 THEN b ELSE c
        IN <<v, v, v, 1>>]

\* calls on the block at the origin of a 9x9 frame, uniform in prev
EdgeCalls ==
    { [fn |-> "ComputeBlockFlow", done |-> FALSE, result |-> <<0, 0>>,
       prev |-> EdgeImage(1, b, c), curr |-> EdgeImage(d, d, d), width |-> 9,
       height |-> 9, blockX |-> 0, blockY |-> 0, blockSize |-> 8] :
      b \in 0 .. 3, c \in 0 .. 3, d \in (0 .. 3) \cup {40} }

\* every pixel of the block of the call has the color of its first pixel
BlockUniform(c) ==
    \A x \in c.blockX .. (Min(c.blockX + c.blockSize, c.width) - 1) :
        \A y \in c.blockY .. (Min(c.blockY + c.blockSize, c.height) - 1) :
            c.prev[y * c.width + x] = c.prev[c.blockY * c.width + c.blockX]

InitEstimate ==
    /\ PluginInit
    /\ cli = CliIdle
    /\ call \in MotionCalls \cup ShiftCalls \cup FlowCalls \cup EdgeCalls
    /\ cep = PanelNotLoaded

\* ComputeBlockMotion(curr, prev, ...) returns outDx, outDy
CallComputeBlockMotion ==
    /\ call.fn = "ComputeBlockMotion"
    /\ ~call.done
    /\ call' = [call EXCEPT
                  !.done = TRUE,
                  !.result = ComputeBlockMotion(call.curr, call.prev, call.width,
                                                call.height, call.blockX, call.blockY,
                                                call.blockSize, call.searchRange)]
    /\ UNCHANGED <<pluginVars, cli, cep>>

\* ComputeBlockFlow(prev, curr, ...) sets outMvX, outMvY
CallComputeBlockFlow ==
    /\ call.fn = "ComputeBlockFlow"
    /\ ~call.done
    /\ call' = [call EXCEPT
                  !.done = TRUE,
                  !.result = ComputeBlockFlow(call.prev, call.curr, call.width,
                                              call.height, call.blockX, call.blockY,
                                              call.blockSize)]
    /\ UNCHANGED <<pluginVars, cli, cep>>

NextEstimate ==
    \/ CallComputeBlockMotion
    \/ CallComputeBlockFlow

SpecEstimate == InitEstimate /\ [][NextEstimate]_vars

-----------------------------------------------------------------------------
(* Direct calls of the two warp steps, one block of the loops at a time *)

\* the frames a warp is called on: the video's size, and a square of its width
WarpFrameSizes == { <<FrameWidth, FrameHeight>>, <<FrameWidth, FrameWidth>> }

\* an image of one level
LevelImage(v, width, height) == [i \in 0 .. (width * height - 1) |-> <<v, v, v, 1>>]

\* the input frames a flow is estimated between: frames of the video, a black
\* and a bright one
WarpInputs(width, height) ==
    { VideoPixels(f, width, height) : f \in 0 .. MaxFrame }
        \cup { LevelImage(v, width, height) : v \in {0, 40} }

\* buf with the pixels of writes stored at their indices
Overwrite(buf, writes) ==
    [i \in DOMAIN buf |-> IF i \in DOMAIN writes THEN writes[i] ELSE buf[i]]

\* a step that writes each block into the image it reads from
SourceAfterBlock_InPlace(source, writes) == Overwrite(source, writes)

\* the image a warp reads from, after one block was copied: the copy went to
\* the output buffer (temp, line 126; output, line 122)
SourceAfterBlock(source, writes) == source

\* lines 128-129: the origins of the blocks in the order of the loops
WarpBlocks(width, height, blockSize) ==
    LET blocksX == (width + blockSize - 1) \div blockSize
        blocksY == (height + blockSize - 1) \div blockSize
    IN [k \in 1 .. (blocksX * blocksY) |->
          <<((k - 1) % blocksX) * blockSize, ((k - 1) \div blocksX) * blockSize>>]

\* lines 130-135: <<blockW, blockH>> of the block at (bx, by)
WarpBlockExtent(width, height, blockSize, bx, by) ==
    << (IF bx + blockSize < width THEN bx + blockSize ELSE width) - bx,
       (IF by + blockSize < height THEN by + blockSize ELSE height) - by >>

\* lines 130-162: for each pixel of the block at (bx, by), by its index in
\* temp, the index in accumulated it is copied from
WarpBlockReads(prev, curr, width, height, blockSize, bx, by) ==
    LET ext == WarpBlockExtent(width, height, blockSize, bx, by)
        flow == ComputeBlockFlow(prev, curr, width, height, bx, by, blockSize)
        dst == { (by + py) * width + (bx + px) :
                    px \in 0 .. (ext[1] - 1), py \in 0 .. (ext[2] - 1) }
    IN [i \in dst |->
          WarpSourceIndex(i % width, i \div width, bx, by, ext[1], ext[2],
                          flow[1], flow[2], width, height)]

\* calls of WarpAccumulated as PrecomputeWarpedFrames makes them (lines
\* 328-332); temp is the buffer of line 126, before the image at the call,
\* reads the source index of every pixel copied so far
WarpAccumulatedCalls ==
    UNION { { [fn |-> "WarpAccumulated", done |-> FALSE, next |-> 1, reads |-> << >>,
               before |-> VideoPixels(a, sz[1], sz[2]),
               accumulated |-> VideoPixels(a, sz[1], sz[2]),
               temp |-> LevelImage(0, sz[1], sz[2]),
               prev |-> p, curr |-> c, width |-> sz[1], height |-> sz[2],
               blockSize |-> b] :
              a \in {0, 1}, p \in WarpInputs(sz[1], sz[2]),
              c \in WarpInputs(sz[1], sz[2]), b \in FlowBlockSizes } :
            sz \in WarpFrameSizes }

\* the field of width x height that gives block blockIdx the vector
\* v + blockIdx * w
LinearField(v, w, width, height, blockSize) ==
    LET blocksX == GridBlocks(width, blockSize)
        blocksY == GridBlocks(height, blockSize)
    IN [blocksX |-> blocksX, blocksY |-> blocksY,
        dx |-> [blockIdx \in 0 .. (blocksX * blocksY - 1) |-> v[1] + blockIdx * w[1]],
        dy |-> [blockIdx \in 0 .. (blocksX * blocksY - 1) |-> v[2] + blockIdx * w[2]]]

\* the fields a CLI warp is called with: those of pass 2 on the video, and
\* fields whose vectors point up to far outside the frame
WarpFields(width, height, blockSize) ==
    { MotionVectors(VideoPixels(f + 1, width, height), VideoPixels(f, width, height),
                    width, height, blockSize, r) : f \in {0, 1}, r \in {1, 2} }
        \cup { LinearField(v, w, width, height, blockSize) :
                 v \in {<<0, 0>>, <<3, -1>>, <<-12, 5>>},
                 w \in {<<0, 0>>, <<1, -2>>, <<-5, 7>>} }

\* calls of WarpFrameWithMotion as pass 3 makes them (lines 469-470); output
\* is the vector of line 122 after its resize
WarpFrameCalls ==
    UNION { { [fn |-> "WarpFrameWithMotion", done |-> FALSE, next |-> 0,
               reads |-> << >>,
               before |-> VideoPixels(a, sz[1], sz[2]),
               source |-> VideoPixels(a, sz[1], sz[2]),
               output |-> [i \in 0 .. (sz[1] * sz[2] - 1) |-> <<0, 0, 0, 0>>],
               mvs |-> mv, width |-> sz[1], height |-> sz[2], blockSize |-> b] :
              a \in {0, 1}, mv \in WarpFields(sz[1], sz[2], b) } :
            sz \in WarpFrameSizes, b \in CallBlockSizes }

InitWarp ==
    /\ PluginInit
    /\ cli = CliIdle
    /\ call \in WarpAccumulatedCalls \cup WarpFrameCalls
    /\ cep = PanelNotLoaded

\* WarpAccumulated, lines 128-163: one pass of the body of the loops, for the
\* next block
WarpAccumulatedBlock ==
    /\ call.fn = "WarpAccumulated"
    /\ ~call.done
    /\ call.next <= Len(WarpBlocks(call.width, call.height, call.blockSize))
    /\ \E b \in {WarpBlocks(call.width, call.height, call.blockSize)[call.next]} :
          \E reads \in {WarpBlockReads(call.prev, call.curr, call.width, call.height,
                                       call.blockSize, b[1], b[2])} :
             \E writes \in {[i \in DOMAIN reads |-> call.accumulated[reads[i]]]} :
                call' = [call EXCEPT
                           !.temp = Overwrite(call.temp, writes),
                           !.accumulated = SourceAfterBlock(call.accumulated, writes),
                           !.reads = reads @@ call.reads,
                           !.next = call.next + 1]
    /\ UNCHANGED <<pluginVars, cli, cep>>

\* WarpAccumulated, lines 166-167: temp is moved into accumulated.pixelData
WarpAccumulatedEnd ==
    /\ call.fn = "WarpAccumulated"
    /\ ~call.done
    /\ call.next > Len(WarpBlocks(call.width, call.height, call.blockSize))
    /\ call' = [call EXCEPT !.accumulated = call.temp, !.done = TRUE]
    /\ UNCHANGED <<pluginVars, cli, cep>>

\* lines 129-151: for each pixel of block blockIdx inside the frame, by its
\* index in output, the index in source it is copied from
WarpFrameBlockReads(mvs, width, height, blockSize, blockIdx) ==
    LET bx == blockIdx % mvs.blocksX
        by == blockIdx \div mvs.blocksX
        dst == { p \in (0 .. (blockSize - 1)) \X (0 .. (blockSize - 1)) :
                    by * blockSize + p[2] < height /\ bx * blockSize + p[1] < width }
    IN [i \in { (by * blockSize + p[2]) * width + (bx * blockSize + p[1]) : p \in dst } |->
          WarpFrameSourceIndex(i % width, i \div width, mvs.dx[blockIdx],
                               mvs.dy[blockIdx], width, height)]

\* WarpFrameWithMotion, lines 126-153: one pass of the body of the loops, for
\* the next block; the function returns after the last one
WarpFrameBlock ==
    /\ call.fn = "WarpFrameWithMotion"
    /\ ~call.done
    /\ call.next < call.mvs.blocksX * call.mvs.blocksY
    /\ \E reads \in {WarpFrameBlockReads(call.mvs, call.width, call.height,
                                          call.blockSize, call.next)} :
          \E writes \in {[i \in DOMAIN reads |-> call.source[reads[i]]]} :
             call' = [call EXCEPT
                        !.output = Overwrite(call.output, writes),
                        !.source = SourceAfterBlock(call.source, writes),
                        !.reads = reads @@ call.reads,
                        !.next = call.next + 1,
                        !.done = (call.next + 1 >= call.mvs.blocksX * call.mvs.blocksY)]
    /\ UNCHANGED <<pluginVars, cli, cep>>

NextWarp ==
    \/ WarpAccumulatedBlock
    \/ WarpAccumulatedEnd
    \/ WarpFrameBlock

SpecWarp == InitWarp /\ [][NextWarp]_vars

-----------------------------------------------------------------------------
(* The fold on an image whose pixels tell their origin *)

\* a reference frame in which the pixel at index i has a color of its own,
\* one that no frame of the video and no cleared buffer holds
MarkedImage(width, height) ==
    [i \in 0 .. (width * height - 1) |-> <<100 + i, 100 + i, 100 + i, 1>>]

\* the raw frames of a window of two frames and the frame before it
FoldRawFrames(width, height) ==
    { <<VideoPixels(a, width, height), b, c>> :
        a \in {0, 1},
        b \in {VideoPixels(1, width, height), LevelImage(40, width, height)},
        c \in {VideoPixels(2, width, height), LevelImage(0, width, height),
               LevelImage(40, width, height)} }

\* folds of the plugin (lines 311-343): the reference frame is warped by the
\* flow between each raw frame of the window and the one before it
PluginFoldCalls ==
    UNION { { [fn |-> "PrecomputeWarpedFrames", i |-> 0, steps |-> 2,
               reference |-> MarkedImage(sz[1], sz[2]),
               accumulated |-> MarkedImage(sz[1], sz[2]),
               raw |-> r, width |-> sz[1], height |-> sz[2], blockSize |-> b] :
              r \in FoldRawFrames(sz[1], sz[2]), b \in FlowBlockSizes } :
            sz \in WarpFrameSizes }

\* folds of the CLI (lines 465-473): the reference frame is warped by the
\* field of each frame of the window
CliFoldCalls ==
    UNION { { [fn |-> "pass3", i |-> 0, steps |-> 2,
               reference |-> MarkedImage(sz[1], sz[2]),
               accumulated |-> MarkedImage(sz[1], sz[2]),
               motionVectors |-> <<mv1, mv2>>,
               width |-> sz[1], height |-> sz[2], blockSize |-> b] :
              mv1 \in WarpFields(sz[1], sz[2], b), mv2 \in WarpFields(sz[1], sz[2], b) } :
            sz \in WarpFrameSizes, b \in CallBlockSizes }

InitMarked ==
    /\ PluginInit
    /\ cli = CliIdle
    /\ call \in PluginFoldCalls \cup CliFoldCalls
    /\ cep = PanelNotLoaded

\* lines 320-343: one iteration of the loop of PrecomputeWarpedFrames
MarkedPrecomputeStep ==
    /\ call.fn = "PrecomputeWarpedFrames"
    /\ call.i < call.steps
    /\ \E warped \in {WarpAccumulated(call.accumulated, call.raw[call.i + 1],
                                      call.raw[call.i + 2], call.width, call.height,
                                      call.blockSize)} :
          call' = [call EXCEPT !.accumulated = warped, !.i = call.i + 1]
    /\ UNCHANGED <<pluginVars, cli, cep>>

\* lines 467-473: one iteration of the loop of pass 3
MarkedPass3Step ==
    /\ call.fn = "pass3"
    /\ call.i < call.steps
    /\ \E warped \in {WarpFrameWithMotion(call.accumulated,
                                          call.motionVectors[call.i + 1], call.width,
                                          call.height, call.blockSize)} :
          call' = [call EXCEPT !.accumulated = NextAccumulated(call.accumulated, warped),
                               !.i = call.i + 1]
    /\ UNCHANGED <<pluginVars, cli, cep>>

NextMarked ==
    \/ MarkedPrecomputeStep
    \/ MarkedPass3Step

SpecMarked == InitMarked /\ [][NextMarked]_vars

-----------------------------------------------------------------------------
(* Properties of the sequence cache *)

\* the reference frame and a raw frame for every index of
\* [moshFrame-1, moshFrame+duration) are cached
InputsCached(moshFrame, duration) ==
    /\ referenceFrame.valid
    /\ \A f \in (moshFrame - 1) .. (moshFrame + duration - 1) :
          Found(f) /\ accumulatedFrames[f].valid

\* the frames a warped result is stored for
WarpedFrames == { f \in 0 .. (MaxFrame + 2) : Found(WarpedKey(f)) }

\* the recorded window [analyzedMoshFrame, analyzedMoshFrame + analyzedDuration)
RecordedWindow == analyzedMoshFrame .. (analyzedMoshFrame + analyzedDuration - 1)

\* C1: PrecomputeWarpedFrames runs (and analysisState becomes Complete) only
\* in a state where the reference frame is valid and a raw frame is cached for
\* every index in [moshFrame-1, moshFrame+duration).
C1_PrecomputeOnlyWithAllInputs ==
    \A t \in Threads :
        pc[t] \in {"precompute", "fold"} =>
            InputsCached(MoshFrameOf(t), DurationOf(t))

\* C2: between two consecutive parameter changes PrecomputeWarpedFrames
\* executes at most once, whatever Render requests follow it.
C2_PrecomputeAtMostOncePerConfiguration == precomputeRuns <= 1

\* C2 witness: pre-computation has run, and a later Render of an in-window
\* frame under the same parameters has been served without running it again.
C2_Witness ==
    /\ precomputeRuns = 1
    /\ analysisState = Complete
    /\ \E t \in Threads :
          /\ pc[t] = "ret"
          /\ InMoshRange(t)
          /\ local[t] = NoLocal
          /\ RecordedConfig = <<MoshFrameOf(t), DurationOf(t), BlockSizeOf(t)>>

\* C3: whenever the reference frame and every raw frame of the window are
\* cached under the current parameters, a Render of an in-window frame returns
\* the moshed frame and not the interim tint, also after SequenceFlatten.
C3_MoshedWhenInputsCached ==
    \A t \in Threads :
        pc[t] = "tint" => ~InputsCached(MoshFrameOf(t), DurationOf(t))

\* C4: after pre-computation has completed, a Render whose parameters differ
\* from the recorded ones in a single field (here also searchRange) resets the
\* state to NotStarted and discards every raw frame, the reference and every
\* warped result before anything else is done with the cache.
C4_AnyParameterChangeResets ==
    [][\A t \in Threads :
          ( /\ pc[t] = "params"
            /\ pc'[t] = "cache"
            /\ analysisState = Complete
            /\ \/ ParamsChanged(MoshFrameOf(t), DurationOf(t), BlockSizeOf(t))
               \/ req[t].params.searchRange # analyzedSearchRange )
          => ( /\ analysisState' = NotStarted
               /\ accumulatedFrames' = EmptyMap
               /\ ~referenceFrame'.valid )]_vars

\* C5: every warped result held in the cache was computed under the recorded
\* parameters, from a reference frame and raw frames that were cached (valid)
\* under them; every raw frame and the reference are those of the recorded
\* parameters; and a Render blends only with a warped result of its own
\* parameters.
C5_NoResultOfAnotherConfiguration ==
    /\ referenceFrame.config = RecordedConfig
    /\ \A k \in DOMAIN accumulatedFrames :
          /\ accumulatedFrames[k].config = RecordedConfig
          /\ accumulatedFrames[k].inputs \subseteq {<<RecordedConfig, TRUE>>}
    /\ \A t \in Threads :
          out[t].kind = "moshed" =>
              /\ out[t].warpedConfig =
                    <<MoshFrameOf(t), DurationOf(t), BlockSizeOf(t)>>
              /\ out[t].warpedConfig = RecordedConfig

\* C6: every operation that mutates the sequence cache runs holding
\* cacheMutex, so that no mutation overlaps a Render.
C6_MutationsHoldCacheMutex ==
    /\ \A t \in Threads : pc[t] # "idle" => cacheMutex = t
    /\ hostPc # "idle" => cacheMutex = "host"
    /\ ~(hostPc # "idle" /\ \E t \in Threads : pc[t] # "idle")

\* C7: pre-computation is all-or-nothing for every other thread: outside the
\* fold, warped results exist for all frames of the window or for none, and no
\* two threads are in PrecomputeWarpedFrames together.
C7_PrecomputeAllOrNothing ==
    /\ (\A t \in Threads : pc[t] # "fold") =>
           (WarpedFrames = {} \/ WarpedFrames = RecordedWindow)
    /\ \A t1, t2 \in Threads :
           (pc[t1] \in {"precompute", "fold"} /\ pc[t2] \in {"precompute", "fold"})
               => t1 = t2

\* C8: while the reference frame or a raw frame of the window is missing, a
\* Render of an in-window frame goes to the interim tint: it neither blends
\* with a warped result nor runs the fold.
C8_TintWhileInputsMissing ==
    [][\A t \in Threads :
          ( /\ pc[t] = "route"
            /\ pc'[t] # "route"
            /\ InMoshRange(t)
            /\ ~InputsCached(MoshFrameOf(t), DurationOf(t)) )
          => pc'[t] = "tint"]_vars

\* C9: once pre-computation has completed, a Render of in-window frame f
\* outputs src*(1-blend) + warped[f]*blend from the stored result, without
\* estimation or warping, and leaves the reference, the warped results and
\* analysisState unchanged.
C9_ServedFromStoredResult ==
    [][\A t \in Threads :
          ( /\ pc[t] = "route"
            /\ pc'[t] # "route"
            /\ InMoshRange(t)
            /\ analysisState = Complete )
          => ( /\ pc'[t] = "ret"
               /\ out'[t].kind = "moshed"
               /\ UNCHANGED <<referenceFrame, accumulatedFrames, analysisState>> )]_vars

\* the fold of the plugin up to frame f of a window starting at moshFrame:
\* the frame at moshFrame-1 warped once per window frame, in increasing order
RECURSIVE PluginFold(_, _, _)
PluginFold(f, moshFrame, blockSize) ==
    IF f < moshFrame THEN VideoPixels(moshFrame - 1, FrameWidth, FrameHeight)
    ELSE WarpAccumulated(PluginFold(f - 1, moshFrame, blockSize),
                         VideoPixels(f - 1, FrameWidth, FrameHeight),
                         VideoPixels(f, FrameWidth, FrameHeight),
                         FrameWidth, FrameHeight, blockSize)

\* C10: the warped result stored for window frame t is
\* step(accumulated[t-1], estimate(raw[t-1], raw[t])), the fold being seeded
\* with the frame at moshFrame-1 and run in increasing order of t: in the
\* plugin's cache, and in passes 2 and 3 of the CLI for every moshFrame it
\* runs with, 0 included.
C10_WarpedIsLeftFold ==
    /\ \A f \in WarpedFrames :
          LET entry == accumulatedFrames[WarpedKey(f)]
          IN entry.pixelData = PluginFold(f, entry.config[1], entry.config[3])
    /\ cli.pc \in {"pass2", "pass3", "pass4", "done"} =>
          \A k \in 1 .. Len(cli.motionVectors) :
              LET t == cli.moshFrame + k - 1
              IN /\ cli.prevIdx[k] = t - 1
                 /\ cli.motionVectors[k] =
                        MotionVectors(CliFrame(t), CliFrame(cli.prevIdx[k]),
                                      FrameWidth, FrameHeight, cli.blockSize,
                                      cli.searchRange)
    /\ cli.pc \in {"pass3", "pass4", "done"} =>
          /\ cli.refFrameIdx = cli.moshFrame - 1
          /\ \A k \in 1 .. Len(cli.warpedFrames) :
                cli.warpedFrames[k] =
                    WarpFrameWithMotion(
                        IF k = 1 THEN CliFrame(cli.refFrameIdx)
                        ELSE cli.warpedFrames[k - 1],
                        cli.motionVectors[k], FrameWidth, FrameHeight,
                        cli.blockSize)

\* the folds of every window a parameter set of the model describes, by
\* <<frame, moshFrame, blockSize>>
PluginFoldTable ==
    [c \in { <<f, p.moshFrame, BlockSizeFromIndex(p.blockSizeIndex)>> :
               f \in 0 .. MaxFrame, p \in ParamSets } |->
        PluginFold(c[1], c[2], c[3])]

\* C11: for fixed parameters and frame contents, whatever the arrival order
\* and the thread interleaving of the Render requests that lead to the
\* pre-computation, the warped result stored for window frame f is the fold of
\* the frame before the window up to f, and the moshed output of f is the blend
\* of the source with that fold: neither depends on the request that ran it.
C11_WarpedIndependentOfArrivalOrder ==
    /\ \A f \in WarpedFrames :
          LET entry == accumulatedFrames[WarpedKey(f)]
          IN entry.pixelData = PluginFoldTable[<<f, entry.config[1], entry.config[3]>>]
    /\ \A t \in Threads :
          out[t].kind = "moshed" =>
              out[t].pixels =
                  BlendPixels(SourceLayer(req[t].currentFrame).pixels,
                              PluginFoldTable[<<req[t].currentFrame, MoshFrameOf(t),
                                                BlockSizeOf(t)>>],
                              req[t].params.blend)

\* C11 witness: the frames of a two-frame window arrived out of order (the
\* request of the first window frame ran the pre-computation, so the second
\* was cached before it) and that request returns the moshed frame.
C11_Witness ==
    \E t \in Threads :
        /\ pc[t] = "ret"
        /\ out[t].kind = "moshed"
        /\ local[t] # NoLocal
        /\ DurationOf(t) = 2
        /\ req[t].currentFrame = MoshFrameOf(t)

\* C12: the reference frame becomes valid only in a Render of frame
\* moshFrame-1, taken while no reference is held, and then holds that frame;
\* every Render of frame moshFrame-1 leaves a valid reference behind (so the
\* first one after a clearing captures it); and a valid reference changes only
\* by a clearing of the cache (a parameter change, SequenceFlatten or
\* SequenceSetdown), never by a later Render of any frame.
C12_ReferenceCapturedOnce ==
    [][/\ (referenceFrame' # referenceFrame /\ referenceFrame'.valid) =>
            /\ ~referenceFrame.valid
            /\ \E t \in Threads :
                  /\ pc[t] = "reference" /\ pc'[t] = "route"
                  /\ req[t].currentFrame = MoshFrameOf(t) - 1
                  /\ referenceFrame'.frameIndex = req[t].currentFrame
                  /\ referenceFrame'.pixelData =
                         SourceLayer(req[t].currentFrame).pixels
       /\ \A t \in Threads :
            (/\ pc[t] = "reference" /\ pc'[t] = "route"
             /\ req[t].currentFrame = MoshFrameOf(t) - 1) => referenceFrame'.valid
       /\ (referenceFrame.valid /\ referenceFrame' # referenceFrame) =>
            /\ ~referenceFrame'.valid
            /\ \/ \E t \in Threads :
                     /\ pc[t] = "params" /\ pc'[t] = "cache"
                     /\ ParamsChanged(MoshFrameOf(t), DurationOf(t), BlockSizeOf(t))
               \/ hostPc = "flatten" /\ hostPc' = "idle"
               \/ alive /\ ~alive']_vars

\* C12 witness: after the pre-computation a later Render of frame moshFrame-1
\* has passed the reference step and the reference is still held.
C12_Witness ==
    \E t \in Threads :
        /\ pc[t] = "route"
        /\ req[t].currentFrame = MoshFrameOf(t) - 1
        /\ referenceFrame.valid
        /\ analysisState = Complete
        /\ WarpedFrames = RecordedWindow

\* C13: the key of a raw input frame (a frame number that can be rendered)
\* never equals the key WarpedKey(f) of a warped result; accordingly every
\* entry under a frame number is a raw frame, holding that frame's pixels when
\* valid, and every other entry is the warped result of the window frame whose
\* WarpedKey it is stored under: neither kind overwrites the other.
C13_RawAndWarpedKeysDisjoint ==
    /\ \A c \in 0 .. MaxFrame : \A f \in 0 .. (MaxFrame + 2) : c # WarpedKey(f)
    /\ \A k \in DOMAIN accumulatedFrames :
          LET e == accumulatedFrames[k]
          IN IF k >= 0
             THEN /\ e.inputs = {}
                  /\ e.valid => /\ e.frameIndex = k
                                /\ e.pixelData = SourceLayer(k).pixels
             ELSE /\ e.inputs # {}
                  /\ k = WarpedKey(e.frameIndex)
                  /\ e.frameIndex \in e.config[1] .. (e.config[1] + e.config[2] - 1)

\* C13 witness: the map holds, for one window frame, both the raw frame and a
\* warped result with other pixels.
C13_Witness ==
    \E f \in WarpedFrames :
        /\ Found(f)
        /\ accumulatedFrames[f].valid
        /\ accumulatedFrames[f].pixelData # accumulatedFrames[WarpedKey(f)].pixelData

\* C14: for the same frames, window and block size, the warped frames of
\* the CLI (ComputeBlockMotion and WarpFrameWithMotion, passes 2 and 3) are
\* the warped frames of the plugin's pre-computation (ComputeBlockFlow and
\* WarpAccumulated).
C14_CliFoldEqualsPluginFold ==
    (/\ cli.pc \in {"pass3", "pass4", "done"}
     /\ cli.moshFrame >= 1
     /\ cli.blockSize \in {8, 16, 32}) =>
        \A k \in 1 .. Len(cli.warpedFrames) :
            cli.warpedFrames[k] =
                PluginFold(cli.moshFrame + k - 1, cli.moshFrame, cli.blockSize)

\* C15: for two identical frames, any block size and any search range,
\* ComputeBlockMotion returns the displacement (0,0) for every block.
C15_IdenticalFramesGiveZeroMotion ==
    (/\ call.fn = "ComputeBlockMotion"
     /\ call.done
     /\ call.prev = call.curr) => call.result = <<0, 0>>

\* C16: on a 16x16 frame of one block whose single bright column has moved
\* four columns to the right, ComputeBlockMotion returns a displacement with
\* vertical component 0 and horizontal component of magnitude 4.
C16_ShiftedColumnGivesHorizontalFour ==
    (/\ call.fn = "ComputeBlockMotion"
     /\ call.done
     /\ call \in { [c EXCEPT !.done = TRUE, !.result = call.result] :
                   c \in ShiftCalls }) =>
        /\ call.result[2] = 0
        /\ Abs(call.result[1]) = 4

\* C17: for two identical frames and any block size, ComputeBlockFlow
\* returns the displacement (0,0) for every block, whether the determinant is
\* degenerate or not.
C17_IdenticalFramesGiveZeroFlow ==
    (/\ call.fn = "ComputeBlockFlow"
     /\ call.done
     /\ call.prev = call.curr) => call.result = <<0, 0>>

\* C17 witness: a completed call on identical frames for a block whose
\* determinant is not degenerate.
C17_Witness ==
    /\ call.fn = "ComputeBlockFlow"
    /\ call.done
    /\ call.prev = call.curr
    /\ ~DetDegenerate(BlockDet(call.prev, call.width, call.height, call.blockX,
                               call.blockY, call.blockSize))

\* C18: for a block of prev whose pixels all have one color, whatever lies
\* outside the block and whatever curr is, ComputeBlockFlow takes the
\* degenerate-determinant branch and returns (0,0).
C18_UniformBlockIsDegenerate ==
    (/\ call.fn = "ComputeBlockFlow"
     /\ call.done
     /\ BlockUniform(call)) =>
        /\ DetDegenerate(BlockDet(call.prev, call.width, call.height, call.blockX,
                                  call.blockY, call.blockSize))
        /\ call.result = <<0, 0>>

\* the left fold of the warp step over a list of displacement fields
RECURSIVE FoldFields(_, _, _)
FoldFields(image, fields, blockSize) ==
    IF fields = << >> THEN image
    ELSE FoldFields(WarpFrameWithMotion(image, Head(fields), FrameWidth, FrameHeight,
                                        blockSize),
                    Tail(fields), blockSize)

\* the field that gives every block of the grid the vector v
UniformField(v, blockSize) ==
    LET blocksX == GridBlocks(FrameWidth, blockSize)
        blocksY == GridBlocks(FrameHeight, blockSize)
    IN [blocksX |-> blocksX, blocksY |-> blocksY,
        dx |-> [blockIdx \in 0 .. (blocksX * blocksY - 1) |-> v[1]],
        dy |-> [blockIdx \in 0 .. (blocksX * blocksY - 1) |-> v[2]]]

\* an image and three displacement fields, by <<image, A, B, C, blockSize>>:
\* the fields of pass 2 on the first frames of the video, and uniform fields
FoldCases ==
    { <<CliFrame(s), MotionVectors(CliFrame(1), CliFrame(0), FrameWidth, FrameHeight, b, r),
        MotionVectors(CliFrame(2), CliFrame(1), FrameWidth, FrameHeight, b, r),
        MotionVectors(CliFrame(3), CliFrame(2), FrameWidth, FrameHeight, b, r), b>> :
      s \in 0 .. MaxFrame, b \in CliBlockSizes, r \in CliSearchRanges }
    \cup
    { <<CliFrame(s), UniformField(<<0, 0>>, b), UniformField(<<r, 0>>, b),
        UniformField(<<-r, 0>>, b), b>> :
      s \in 0 .. MaxFrame, b \in CliBlockSizes, r \in CliSearchRanges }

\* the cases whose fold changes when B and C are swapped
OrderDependentFolds ==
    { c \in FoldCases : FoldFields(c[1], <<c[2], c[4], c[3]>>, c[5])
                        # FoldFields(c[1], <<c[2], c[3], c[4]>>, c[5]) }

\* C19: folding the displacement fields one step at a time (pass 3 of the CLI,
\* the loop of PrecomputeWarpedFrames) gives the same image as the left fold
\* over the list of the fields, and there are an image and fields B, C for
\* which the order A, C, B gives another image than A, B, C.
C19_StepwiseFoldIsListFold ==
    /\ cli.pc \in {"pass3", "pass4", "done"} =>
          /\ Len(cli.warpedFrames) = IF cli.pc = "pass3" THEN cli.i ELSE cli.duration
          /\ \A k \in 1 .. Len(cli.warpedFrames) :
                cli.warpedFrames[k] =
                    FoldFields(CliFrame(cli.refFrameIdx),
                               SubSeq(cli.motionVectors, 1, k), cli.blockSize)
          /\ cli.accumulated =
                FoldFields(CliFrame(cli.refFrameIdx),
                           SubSeq(cli.motionVectors, 1, Len(cli.warpedFrames)),
                           cli.blockSize)
    /\ \A f \in WarpedFrames :
          LET entry == accumulatedFrames[WarpedKey(f)]
          IN entry.pixelData = PluginFoldTable[<<f, entry.config[1], entry.config[3]>>]
    /\ OrderDependentFolds # {}

\* C19 witness: pass 3 has folded three fields A, B, C of the video, and the
\* fold in the order A, C, B of the same fields gives another image.
C19_Witness ==
    /\ cli.pc = "pass4"
    /\ Len(cli.warpedFrames) = 3
    /\ cli.warpedFrames[3] #
          FoldFields(CliFrame(cli.refFrameIdx),
                     <<cli.motionVectors[1], cli.motionVectors[3], cli.motionVectors[2]>>,
                     cli.blockSize)

\* C20: with blend factor 0 the blended output of an in-window frame equals
\* the original input frame exactly, every pixel and every channel: in Render,
\* for every warped result it blends with, and in pass 4 of the CLI.
C20_BlendZeroGivesOriginal ==
    /\ \A t \in Threads :
          (out[t].kind = "moshed" /\ req[t].params.blend = 0) =>
              out[t].pixels = PassthroughPixels(SourceLayer(req[t].currentFrame).pixels)
    /\ (cli.pc \in {"pass4", "done"} /\ cli.blend = 0) =>
          \A k \in 1 .. Len(cli.written) :
              (k - 1 >= cli.moshFrame /\ k - 1 < cli.moshFrame + cli.duration) =>
                  cli.written[k] = PassthroughPixels(CliFrame(k - 1))

\* C20 witness: Render has blended an in-window frame with blend 0 and a
\* warped result that differs from the source.
C20_Witness ==
    \E t \in Threads :
        /\ out[t].kind = "moshed"
        /\ req[t].params.blend = 0
        /\ Found(WarpedKey(req[t].currentFrame))
        /\ accumulatedFrames[WarpedKey(req[t].currentFrame)].pixelData
              # SourceLayer(req[t].currentFrame).pixels

\* C21: with blend factor 1 the output of an in-window frame equals the
\* warped result of that frame exactly, every pixel and every channel: each
\* step of Render that blends with blend 1 outputs the warped result stored for
\* the frame, and each in-window frame pass 4 of the CLI writes with blend 1 is
\* the warped frame of pass 3.
C21_BlendOneGivesWarped ==
    [][ /\ \A t \in Threads :
              (/\ out'[t] # out[t]
               /\ out'[t].kind = "moshed"
               /\ req[t].params.blend = 100) =>
                  /\ Found(WarpedKey(req[t].currentFrame))
                  /\ out'[t].pixels =
                        PassthroughPixels(
                            accumulatedFrames[WarpedKey(req[t].currentFrame)].pixelData)
        /\ (/\ cli.pc = "pass4"
            /\ cli'.pc = "pass4"
            /\ cli'.i = cli.i + 1
            /\ cli.blend = 100
            /\ cli.i >= cli.moshFrame
            /\ cli.i < cli.moshFrame + cli.duration) =>
               /\ Len(cli'.written) = cli.i + 1
               /\ cli'.written[cli.i + 1] =
                     PassthroughPixels(cli.warpedFrames[cli.i - cli.moshFrame + 1])
      ]_vars

\* C21 witness: Render has blended an in-window frame with blend 1 and a
\* warped result that differs from the source.
C21_Witness ==
    \E t \in Threads :
        /\ out[t].kind = "moshed"
        /\ req[t].params.blend = 100
        /\ Found(WarpedKey(req[t].currentFrame))
        /\ out[t].pixels =
              PassthroughPixels(accumulatedFrames[WarpedKey(req[t].currentFrame)].pixelData)
        /\ out[t].pixels # PassthroughPixels(SourceLayer(req[t].currentFrame).pixels)

\* C22: a request with a non-positive block size, a non-positive search
\* range or a blend factor outside [0,1] is rejected before any estimation,
\* warping or blending: a CLI run with such a value computes no motion vectors,
\* no warped frame and writes no frame.
C22_InvalidParametersRejected ==
    (/\ cli.pc # "off"
     /\ \/ cli.blockSize <= 0
        \/ cli.searchRange <= 0
        \/ cli.blend < 0
        \/ cli.blend > 100) =>
        /\ cli.motionVectors = << >>
        /\ cli.warpedFrames = << >>
        /\ cli.written = << >>

\* the reference frame and every raw frame the fold of thread t reads have
\* the size of the request of thread t
FoldSizesAgree(t) ==
    /\ referenceFrame.width = req[t].width
    /\ referenceFrame.height = req[t].height
    /\ \A f \in (MoshFrameOf(t) - 1) .. (MoshFrameOf(t) + DurationOf(t) - 1) :
          /\ Found(f)
          /\ accumulatedFrames[f].width = req[t].width
          /\ accumulatedFrames[f].height = req[t].height

\* C23: when the raw frames cached for a window differ in width or height from
\* one another, from the reference frame or from the Render request that
\* triggers the pre-computation, the fold is rejected before any estimation or
\* warping: no step stores a warped result unless all these sizes agree.
C23_MismatchedSizesRejected ==
    [][ \A t \in Threads :
          (/\ pc[t] = "fold"
           /\ \E f \in 0 .. MaxFrame :
                 /\ ~Found(WarpedKey(f))
                 /\ WarpedKey(f) \in DOMAIN accumulatedFrames') => FoldSizesAgree(t)
      ]_vars

\* the values dx and dy take in the scan of a call: -searchRange,
\* -searchRange + 2, ... up to searchRange
ScanGrid(c) ==
    { v \in (-c.searchRange) .. c.searchRange : (v + c.searchRange) % 2 = 0 }

\* the SAD the call computes for every candidate <<dx, dy>> of its scan
CandidateSads(c) ==
    [d \in ScanGrid(c) \X ScanGrid(c) |->
        BlockSad(c.curr, c.prev, c.width, c.height, c.blockX * c.blockSize,
                 c.blockY * c.blockSize, c.blockSize, d[1], d[2])]

\* candidate d1 is scanned before candidate d2: dy outer, dx inner, ascending
ScannedBefore(d1, d2) == d1[2] < d2[2] \/ (d1[2] = d2[2] /\ d1[1] < d2[1])

\* C24: ComputeBlockMotion scans dy in the outer and dx in the inner loop,
\* both ascending from -searchRange, and replaces the running best only on a
\* strictly smaller SAD: the returned displacement is the first candidate in
\* that order whose SAD is the minimum over all scanned candidates.
C24_FirstMinimumInScanOrderWins ==
    (/\ call.fn = "ComputeBlockMotion"
     /\ call.done
     /\ call.searchRange >= 0) =>
        LET sads == CandidateSads(call)
        IN /\ call.result \in DOMAIN sads
           /\ \A d \in DOMAIN sads :
                 /\ sads[call.result] <= sads[d]
                 /\ ScannedBefore(d, call.result) => sads[d] > sads[call.result]

\* C24 witness: a completed call in which a candidate scanned after the
\* returned one has the same, minimal SAD.
C24_Witness ==
    /\ call.fn = "ComputeBlockMotion"
    /\ call.done
    /\ call.searchRange >= 0
    /\ call.result \in ScanGrid(call) \X ScanGrid(call)
    /\ \E d \in ScanGrid(call) \X ScanGrid(call) :
          /\ ScannedBefore(call.result, d)
          /\ CandidateSads(call)[d] = CandidateSads(call)[call.result]

\* C25: for every searchRange >= 0 each component of the displacement
\* ComputeBlockMotion returns lies in [-searchRange, searchRange] and has the
\* form -searchRange + 2k.
C25_ResultOnStepTwoGrid ==
    (/\ call.fn = "ComputeBlockMotion"
     /\ call.done
     /\ call.searchRange >= 0) =>
        \A i \in 1 .. 2 :
            /\ call.result[i] >= -call.searchRange
            /\ call.result[i] <= call.searchRange
            /\ \E k \in 0 .. call.searchRange :
                  call.result[i] = -call.searchRange + 2 * k

\* C25 witness: a completed call with a positive search range whose result is
\* not the first candidate of the scan.
C25_Witness ==
    /\ call.fn = "ComputeBlockMotion"
    /\ call.done
    /\ call.searchRange > 0
    /\ call.result # <<-call.searchRange, -call.searchRange>>

\* what the pixel at (cx, cy) of the block adds to the SAD of candidate d:
\* the luminance difference when the shifted coordinate is in the frame,
\* nothing otherwise
SadTerm(c, cx, cy, d) ==
    IF cx + d[1] < 0 \/ cx + d[1] >= c.width \/ cy + d[2] < 0 \/ cy + d[2] >= c.height
    THEN 0
    ELSE Abs(GetLuminance(c.curr[cy * c.width + cx])
             - GetLuminance(c.prev[(cy + d[2]) * c.width + (cx + d[1])]))

\* the sum of SadTerm over the pixels of the block that are in the frame
InFrameSad(c, d) ==
    LET xs == { x \in (c.blockX * c.blockSize) .. (c.blockX * c.blockSize + c.blockSize - 1) :
                  x < c.width }
        ys == { y \in (c.blockY * c.blockSize) .. (c.blockY * c.blockSize + c.blockSize - 1) :
                  y < c.height }
    IN Sum([y \in ys |-> Sum([x \in xs |-> SadTerm(c, x, y, d)], xs)], ys)

\* the candidate d of the call shifts every pixel of the block out of the frame
NoInFramePixel(c, d) ==
    \A x \in (c.blockX * c.blockSize) .. (c.blockX * c.blockSize + c.blockSize - 1) :
        \A y \in (c.blockY * c.blockSize) .. (c.blockY * c.blockSize + c.blockSize - 1) :
            \/ x >= c.width \/ y >= c.height
            \/ x + d[1] < 0 \/ x + d[1] >= c.width
            \/ y + d[2] < 0 \/ y + d[2] >= c.height

\* C26: the SAD of a candidate sums |luma(curr) - luma(prev shifted)| over
\* exactly the block pixels whose shifted coordinate is inside the frame;
\* out-of-frame pixels add nothing and are not clamped, so a candidate with no
\* in-frame pixel has SAD 0.
C26_SadSkipsOutOfFramePixels ==
    (/\ call.fn = "ComputeBlockMotion"
     /\ call.done) =>
        \A d \in DOMAIN CandidateSads(call) :
            /\ CandidateSads(call)[d] = InFrameSad(call, d)
            /\ NoInFramePixel(call, d) => CandidateSads(call)[d] = 0

\* C26 witness: a completed call on two different frames whose returned
\* candidate shifts the whole block out of the frame.
C26_Witness ==
    /\ call.fn = "ComputeBlockMotion"
    /\ call.done
    /\ call.searchRange >= 0
    /\ call.prev # call.curr
    /\ NoInFramePixel(call, call.result)
    /\ ~NoInFramePixel(call, <<0, 0>>)

\* lines 78-109 for the call c: <<numerator of u, numerator of v, det>>, in
\* the scale of ComputeBlockFlow (gradients and It doubled)
FlowSystem(c) ==
    LET xs == c.blockX .. (Min(c.blockX + c.blockSize, c.width) - 1)
        ys == c.blockY .. (Min(c.blockY + c.blockSize, c.height) - 1)
        P == xs \X ys
        Ix == [p \in P |-> GetGray(c.prev, c.width, c.height, p[1] + 1, p[2])
                           - GetGray(c.prev, c.width, c.height, p[1] - 1, p[2])]
        Iy == [p \in P |-> GetGray(c.prev, c.width, c.height, p[1], p[2] + 1)
                           - GetGray(c.prev, c.width, c.height, p[1], p[2] - 1)]
        It == [p \in P |-> 2 * (GetGray(c.curr, c.width, c.height, p[1], p[2])
                                - GetGray(c.prev, c.width, c.height, p[1], p[2]))]
        sumIxIx == BlockSum([p \in P |-> Ix[p] * Ix[p]], xs, ys)
        sumIyIy == BlockSum([p \in P |-> Iy[p] * Iy[p]], xs, ys)
        sumIxIy == BlockSum([p \in P |-> Ix[p] * Iy[p]], xs, ys)
        sumIxIt == BlockSum([p \in P |-> Ix[p] * It[p]], xs, ys)
        sumIyIt == BlockSum([p \in P |-> Iy[p] * It[p]], xs, ys)
    IN <<-sumIxIt * sumIyIy + sumIyIt * sumIxIy,
         -sumIyIt * sumIxIx + sumIxIt * sumIxIy,
         sumIxIx * sumIyIy - sumIxIy * sumIxIy>>

\* r is num / den rounded to the nearest integer, a half going away from zero
IsNearestInteger(r, num, den) ==
    /\ 2 * Abs(r * den - num) <= Abs(den)
    /\ 2 * Abs(r * den - num) = Abs(den) => Abs(r * den) > Abs(num)

\* r is num / den rounded to the nearest integer and clamped to [-32, 32]
IsRoundedAndClamped(r, num, den) ==
    /\ r >= -32 /\ r <= 32
    /\ (r > -32 /\ r < 32) => IsNearestInteger(r, num, den)
    /\ r = 32 => \E q \in 32 .. (32 + Abs(num)) : IsNearestInteger(q, num, den)
    /\ r = -32 => \E q \in (-32 - Abs(num)) .. (-32) : IsNearestInteger(q, num, den)

\* C27: every displacement ComputeBlockFlow returns has each axis in
\* [-32, 32]: with |det| >= 1e-6 it is the solved (u, v) rounded to the
\* nearest integer and clamped per axis, with |det| < 1e-6 it is (0, 0).
C27_FlowRoundedAndClamped ==
    (/\ call.fn = "ComputeBlockFlow"
     /\ call.done) =>
        LET sys == FlowSystem(call)
        IN IF DetDegenerate(sys[3]) THEN call.result = <<0, 0>>
           ELSE /\ IsRoundedAndClamped(call.result[1], sys[1], sys[3])
                /\ IsRoundedAndClamped(call.result[2], sys[2], sys[3])

\* C27 witness: a completed call with a non-degenerate determinant whose
\* solved horizontal component is beyond the clamp.
C27_Witness ==
    /\ call.fn = "ComputeBlockFlow"
    /\ call.done
    /\ ~DetDegenerate(FlowSystem(call)[3])
    /\ Abs(call.result[1]) = 32
    /\ ~IsNearestInteger(call.result[1], FlowSystem(call)[1], FlowSystem(call)[3])

\* the origins of the blocks a call of WarpAccumulated has copied so far
CopiedBlocks(c) ==
    { WarpBlocks(c.width, c.height, c.blockSize)[k] : k \in 1 .. (c.next - 1) }

\* the source origin of block b before the clamp: the block's origin plus its
\* flow vector
UnclampedOrigin(c, b) ==
    LET flow == ComputeBlockFlow(c.prev, c.curr, c.width, c.height, b[1], b[2],
                                 c.blockSize)
    IN <<b[1] + flow[1], b[2] + flow[2]>>

\* C28: in the plugin's warp step the source rectangle of every block, the
\* partial blocks at the right and bottom edges included, has its origin
\* clamped to [0, width-blockW] x [0, height-blockH]: the pixel (px, py) of
\* the block is read at the clamped origin plus (px, py), a position inside
\* the frame, so the footprint is a rectangle of the block's own size.
C28_BlockSourceClampedInsideFrame ==
    call.fn = "WarpAccumulated" =>
        \A b \in CopiedBlocks(call) :
            LET ext == WarpBlockExtent(call.width, call.height, call.blockSize, b[1], b[2])
                o == UnclampedOrigin(call, b)
                sx1 == Clamp(o[1], 0, call.width - ext[1])
                sy1 == Clamp(o[2], 0, call.height - ext[2])
            IN /\ sx1 \in 0 .. (call.width - ext[1])
               /\ sy1 \in 0 .. (call.height - ext[2])
               /\ \A px \in 0 .. (ext[1] - 1) :
                     \A py \in 0 .. (ext[2] - 1) :
                        /\ sx1 + px \in 0 .. (call.width - 1)
                        /\ sy1 + py \in 0 .. (call.height - 1)
                        /\ call.reads[(b[2] + py) * call.width + (b[1] + px)]
                              = (sy1 + py) * call.width + (sx1 + px)

\* a finished warp in which a partial block at the right edge and a partial
\* block at the bottom edge had their source origins moved by the clamp
C28_Witness ==
    /\ call.fn = "WarpAccumulated"
    /\ call.done
    /\ \E b \in CopiedBlocks(call) :
          LET ext == WarpBlockExtent(call.width, call.height, call.blockSize, b[1], b[2])
              o == UnclampedOrigin(call, b)
          IN /\ ext[1] < call.blockSize
             /\ (o[1] < 0 \/ o[1] > call.width - ext[1])
    /\ \E b \in CopiedBlocks(call) :
          LET ext == WarpBlockExtent(call.width, call.height, call.blockSize, b[1], b[2])
              o == UnclampedOrigin(call, b)
          IN /\ ext[2] < call.blockSize
             /\ b[2] > 0
             /\ (o[2] < 0 \/ o[2] > call.height - ext[2])

\* line 128: the block of the field that holds the pixel (x, y)
BlockIdxOf(c, x, y) == (y \div c.blockSize) * c.mvs.blocksX + (x \div c.blockSize)

\* the pixels of the blocks a call of WarpFrameWithMotion has copied so far
CopiedPixels(c) ==
    { p \in (0 .. (c.width - 1)) \X (0 .. (c.height - 1)) :
        BlockIdxOf(c, p[1], p[2]) < c.next }

\* C29: in the CLI's warp step the destination pixel (x, y) of a block with
\* displacement (dx, dy) is read from (clamp(x+dx, 0, width-1),
\* clamp(y+dy, 0, height-1)), each coordinate clamped on its own, a position
\* inside the frame.
C29_PixelSourceClampedInsideFrame ==
    call.fn = "WarpFrameWithMotion" =>
        \A p \in CopiedPixels(call) :
            LET blockIdx == BlockIdxOf(call, p[1], p[2])
                srcX == Clamp(p[1] + call.mvs.dx[blockIdx], 0, call.width - 1)
                srcY == Clamp(p[2] + call.mvs.dy[blockIdx], 0, call.height - 1)
            IN /\ srcX \in 0 .. (call.width - 1)
               /\ srcY \in 0 .. (call.height - 1)
               /\ call.reads[p[2] * call.width + p[1]] = srcY * call.width + srcX

\* a finished warp with a pixel whose x left the frame while its y moved
\* inside it, and a pixel whose y left the frame while its x moved inside it
C29_Witness ==
    /\ call.fn = "WarpFrameWithMotion"
    /\ call.done
    /\ \E p \in CopiedPixels(call) :
          LET blockIdx == BlockIdxOf(call, p[1], p[2])
          IN /\ p[1] + call.mvs.dx[blockIdx] \notin 0 .. (call.width - 1)
             /\ p[2] + call.mvs.dy[blockIdx] \in 0 .. (call.height - 1)
             /\ call.mvs.dy[blockIdx] # 0
    /\ \E p \in CopiedPixels(call) :
          LET blockIdx == BlockIdxOf(call, p[1], p[2])
          IN /\ p[2] + call.mvs.dy[blockIdx] \notin 0 .. (call.height - 1)
             /\ p[1] + call.mvs.dx[blockIdx] \in 0 .. (call.width - 1)
             /\ call.mvs.dx[blockIdx] # 0

\* the image a warp call writes: temp until WarpAccumulated moves it into
\* accumulated, output of WarpFrameWithMotion
WarpWritten(c) ==
    IF c.fn = "WarpFrameWithMotion" THEN c.output
    ELSE IF c.done THEN c.accumulated ELSE c.temp

\* the image a warp call reads while its loops run
WarpRead(c) == IF c.fn = "WarpFrameWithMotion" THEN c.source ELSE c.accumulated

\* the position in the order of the loops of the block that holds pixel i
WarpBlockNumber(c, i) ==
    ((i \div c.width) \div c.blockSize) * ((c.width + c.blockSize - 1) \div c.blockSize)
        + ((i % c.width) \div c.blockSize)

\* what the whole function returns for the image the call was made with
WarpResult(c) ==
    IF c.fn = "WarpFrameWithMotion"
    THEN WarpFrameWithMotion(c.before, c.mvs, c.width, c.height, c.blockSize)
    ELSE WarpAccumulated(c.before, c.prev, c.curr, c.width, c.height, c.blockSize)

\* C30: within one warp step, of the plugin and of the CLI, every pixel
\* written holds the pixel the image had at its source position before the
\* step: the image read stays as it was while the blocks are copied, the
\* output goes to a separate buffer at each block's own position, and no
\* block reads what another block of the step has written.
C30_WarpReadsImageBeforeStep ==
    call.fn \in {"WarpAccumulated", "WarpFrameWithMotion"} =>
        /\ ~call.done => WarpRead(call) = call.before
        /\ \A i \in DOMAIN call.reads : WarpWritten(call)[i] = call.before[call.reads[i]]
        /\ call.done => WarpWritten(call) = WarpResult(call)

\* a finished warp of fn in which a block read a pixel of a block copied
\* earlier in the step, at a position whose content the step changed
WarpReadsOverwrittenPosition(fn) ==
    /\ call.fn = fn
    /\ call.done
    /\ \E i \in DOMAIN call.reads :
          /\ WarpBlockNumber(call, call.reads[i]) < WarpBlockNumber(call, i)
          /\ WarpWritten(call)[call.reads[i]] # call.before[call.reads[i]]

C30_Witness ==
    \/ WarpReadsOverwrittenPosition("WarpAccumulated")
    \/ WarpReadsOverwrittenPosition("WarpFrameWithMotion")

\* C31: after the CLI's parameter adjustment, for any integers -f and -d and
\* any non-empty input, duration >= 1 and every index of frames read in
\* passes 2, 3 and 4 lies in [0, totalFrames).
C31_AdjustedParametersInRange ==
    cli.pc \notin {"off", "validate"} =>
        /\ cli.duration >= 1
        /\ cli.reads \subseteq 0 .. (cli.totalFrames - 1)

\* a raw input frame is cached
RawFrameCached == \E f \in 0 .. (MaxFrame + 2) : Found(f)

\* C32: the cache state follows NotStarted -> Collecting -> Ready: once a raw
\* frame is cached and until all inputs of the recorded window are present,
\* analysisState is InProgress, not NotStarted; and it becomes Complete only
\* at the end of PrecomputeWarpedFrames.
C32_CollectingStateRecorded ==
    /\ []( ( /\ RawFrameCached
             /\ ~InputsCached(analyzedMoshFrame, analyzedDuration) )
           => analysisState = InProgress )
    /\ [][ (analysisState # Complete /\ analysisState' = Complete)
           => \E t \in Threads : pc[t] = "fold" /\ pc'[t] = "after" ]_vars

\* no Render call and no sequence command is running
Quiescent == hostPc = "idle" /\ \A t \in Threads : pc[t] = "idle"

\* a warped result is stored for every frame of the recorded window
WindowWarped == \A f \in RecordedWindow : Found(WarpedKey(f))

\* C33: analysisState = Complete holds if and only if a warped result is
\* stored under WarpedKey(f) for every f of the recorded window
\* [analyzedMoshFrame, analyzedMoshFrame + analyzedDuration).  Stated for the
\* states between calls, with a window recorded.
C33_CompleteIffWindowWarped ==
    (Quiescent /\ alive /\ analyzedDuration >= 1)
        => (analysisState = Complete <=> WindowWarped)

\* the reference frame is valid exactly when a raw frame is cached under
\* analyzedMoshFrame - 1, and then both hold the same pixels
ReferenceMatchesRawFrame ==
    /\ referenceFrame.valid <=> Found(analyzedMoshFrame - 1)
    /\ (referenceFrame.valid /\ Found(analyzedMoshFrame - 1))
          => referenceFrame.pixelData = accumulatedFrames[analyzedMoshFrame - 1].pixelData

\* C34: after every completed Render the reference frame is valid if and only
\* if a raw frame is cached under key analyzedMoshFrame - 1, and when both
\* exist they hold the same pixels, the two being captured by the same Render
\* call and cleared together.  Stated for the returns of Render at which no
\* sequence command is running.
C34_ReferenceIffRawFrameCached ==
    [][\A t \in Threads :
          (pc[t] = "ret" /\ pc'[t] = "idle" /\ alive' /\ hostPc' = "idle")
              => ReferenceMatchesRawFrame']_vars

\* the colors of the pixels of image
PixelsOf(image) == { image[i] : i \in DOMAIN image }

\* the warps of a fold, run on their own on a marked reference frame of
\* width x height pixels, keep every pixel of the accumulated image a copy of
\* a pixel of that frame, and take none from a raw frame
MarkedFoldKeepsReferencePixels ==
    call.fn \in {"PrecomputeWarpedFrames", "pass3"} =>
        /\ DOMAIN call.accumulated = 0 .. (call.width * call.height - 1)
        /\ PixelsOf(call.accumulated) \subseteq PixelsOf(call.reference)
        /\ call.fn = "PrecomputeWarpedFrames" =>
              \A k \in 1 .. 3 :
                  PixelsOf(call.accumulated) \cap PixelsOf(call.raw[k]) = {}

\* C35: after every step of the fold every pixel of the accumulated image is
\* a copy of some pixel of the reference frame: the blocks, partial edge
\* blocks included, tile the frame, no pixel is left unwritten and none is
\* taken from elsewhere.  Stated for the steps of PrecomputeWarpedFrames.
C35_AccumulatedMadeOfReferencePixels ==
    [][\A t \in Threads :
          (pc[t] = "fold" /\ pc'[t] = "fold" /\ local'[t].f = local[t].f + 1)
              => /\ DOMAIN local'[t].accumulated = 0 .. (FrameWidth * FrameHeight - 1)
                 /\ PixelsOf(local'[t].accumulated)
                       \subseteq PixelsOf(referenceFrame.pixelData)]_vars

\* step k (from 1) of the fold of call c displaces no block: the flow of
\* every block between the two raw frames of the step is (0, 0), or every
\* vector of the step's field is
ZeroDisplacement(c, k) ==
    IF c.fn = "pass3"
    THEN \A blockIdx \in DOMAIN c.motionVectors[k].dx :
            /\ c.motionVectors[k].dx[blockIdx] = 0
            /\ c.motionVectors[k].dy[blockIdx] = 0
    ELSE \A b \in { WarpBlocks(c.width, c.height, c.blockSize)[n] :
                      n \in DOMAIN WarpBlocks(c.width, c.height, c.blockSize) } :
            ComputeBlockFlow(c.raw[k], c.raw[k + 1], c.width, c.height, b[1], b[2],
                             c.blockSize) = <<0, 0>>

\* C36: a warp step whose displacement is (0, 0) for every block returns an
\* image equal to its input, under the block-level clamp of WarpAccumulated
\* and under the pixel-level clamp of WarpFrameWithMotion, on frames whose
\* sizes leave partial edge blocks as on others.
C36_ZeroDisplacementIsIdentity ==
    [][ ( /\ call.fn \in {"PrecomputeWarpedFrames", "pass3"}
          /\ call'.i = call.i + 1
          /\ ZeroDisplacement(call, call.i + 1) )
        => call'.accumulated = call.accumulated ]_vars

\* a fold of fn on a frame with partial edge blocks whose second step
\* displaced no block, after a first step that moved pixels
ZeroStepDone(fn) ==
    /\ call.fn = fn
    /\ call.i = 2
    /\ call.width % call.blockSize # 0
    /\ call.height % call.blockSize # 0
    /\ ZeroDisplacement(call, 2)
    /\ ~ZeroDisplacement(call, 1)
    /\ call.accumulated # call.reference

C36_Witness ==
    \/ ZeroStepDone("PrecomputeWarpedFrames")
    \/ ZeroStepDone("pass3")

CurrentSocketOpen == cep.ws # 0 /\ cep.sockets[cep.ws] = "OPEN"

\* at most one timer of each kind exists
SingleTimers ==
    /\ Cardinality(cep.intervals) <= 1
    /\ Cardinality(cep.timeouts) <= 1

\* C38: in the CEP panel, whatever the order of the sockets' open and close
\* events, clicks on Reconnect and timer callbacks, a heartbeat timer is active
\* whenever the current socket is open, and there is never more than one
\* heartbeat timer nor more than one reconnect timer.
C38_HeartbeatWhileOpenAndSingleTimers ==
    /\ CurrentSocketOpen => cep.intervals # {}
    /\ SingleTimers

\* the responses sent with the requestId of message m
ResponsesTo(m) == { k \in DOMAIN cep.sent : cep.sent[k].requestId = m }

\* the response message m is answered with once its command has ended
ExpectedResponse(m) ==
    IF cep.received[m].state = "returned"
    THEN [requestId |-> m, result |-> "result", error |-> "null"]
    ELSE [requestId |-> m, result |-> "null",
          error |-> IF cep.received[m].data.command \in KnownCommands
                    THEN "ExtendScript error" ELSE "Unknown command"]

\* C39: in the CEP panel, a command message received on a socket that stays
\* open is answered, when its command has ended, with exactly one response
\* that has its requestId: the result and no error if the command succeeded,
\* a null result and the error's message if it failed or is unknown.  A
\* message of another type, or one that does not parse, gets no response.
C39_OneResponsePerCommand ==
    \A m \in PanelMessages :
        /\ cep.received[m].state = "ignored" => ResponsesTo(m) = {}
        /\ ( /\ cep.received[m].state \in {"returned", "threw"}
             /\ cep.sockets[cep.received[m].socket] = "OPEN" )
              => \E k \in DOMAIN cep.sent :
                    /\ ResponsesTo(m) = {k}
                    /\ [requestId |-> cep.sent[k].requestId,
                        result |-> cep.sent[k].result,
                        error |-> cep.sent[k].error] = ExpectedResponse(m)

=============================================================================
